---- MODULE Spec2Model ----
(***************************************************************************)
(* Query classification and multi-path orchestration of the RAG pipeline:  *)
(* RouterChain (router/chain.py), QueryMonitor (query_processing/          *)
(* monitor.py), QueryProcessor (query_processing/processor.py) and         *)
(* RAGPipeline (integration/rag_pipeline.py).                              *)
(*                                                                         *)
(* Text is a sequence of one-character strings, so that str.lower(),       *)
(* the substring test `w in s` and str.split() are computed, not assumed.  *)
(* Confidences are in hundredths (0.95 is 95).                             *)
(***************************************************************************)
EXTENDS Integers, Sequences, FiniteSets, TLC

VARIABLES
    query, reply, decision,      \* one call of RouterChain.route: its inputs and result
    metrics,                     \* QueryMonitor.metrics, shared by every caller
    current_start,               \* QueryMonitor.current_start: whose start time it holds
    vector_store_manager,        \* RAGPipeline.vector_store_manager: present or not
    pc,                          \* where each process_query call stands
    call,                        \* the local variables of each process_query call
    template,                    \* one call of ResponseTemplate.get_template
    calculation,                 \* one call of Calculator.evaluate
    search,                      \* one call of WebSearchTool.search
    lookup                       \* one call of RAGPipeline._handle_retrieval

routeVars == <<query, reply, decision>>

pipeVars == <<metrics, current_start, vector_store_manager, pc, call>>

toolVars == <<template, calculation, search, lookup>>

vars == <<query, reply, decision, metrics, current_start, vector_store_manager, pc, call,
          template, calculation, search, lookup>>

-----------------------------------------------------------------------------
(* Bounds of the model *)

\* a query is built from at most MaxFragments vocabulary fragments
MaxFragments == 2

\* process_query calls made one after another on one pipeline
NumCalls == 2

\* process_query calls running concurrently on one pipeline
NumThreads == 2

\* an expression handed to Calculator.evaluate has at most MaxExprLen characters
MaxExprLen == 4

\* a search source answers with at most MaxSourceResults results
MaxSourceResults == 2

\* a VectorStoreManager holds at most MaxStores stores
MaxStores == 2

\* one Monitor is called at most MaxMonitorCalls times
MaxMonitorCalls == 4

-----------------------------------------------------------------------------
(* Text *)

UpperAlpha == <<"A","B","C","D","E","F","G","H","I","J","K","L","M",
                "N","O","P","Q","R","S","T","U","V","W","X","Y","Z">>

LowerAlpha == <<"a","b","c","d","e","f","g","h","i","j","k","l","m",
                "n","o","p","q","r","s","t","u","v","w","x","y","z">>

UpperLetters == {UpperAlpha[i] : i \in 1..Len(UpperAlpha)}

LowerLetters == {LowerAlpha[i] : i \in 1..Len(LowerAlpha)}

\* the lower-case letter of each upper-case letter
LowerOf ==
    [c \in UpperLetters |-> LowerAlpha[CHOOSE i \in 1..Len(UpperAlpha) : UpperAlpha[i] = c]]

\* one character of str.lower()
LowerChar(c) == IF c \in UpperLetters THEN LowerOf[c] ELSE c

\* str.lower()
ToLower(s) == [i \in 1..Len(s) |-> LowerChar(s[i])]

\* Python's `w in s` on strings: w occurs in s as a contiguous substring
Contains(s, w) ==
    \E i \in 0..(Len(s) - Len(w)) : SubSeq(s, i + 1, i + Len(w)) = w

\* len(s.split()): the number of maximal runs of non-blank characters
WordCount(s) ==
    Cardinality({i \in 1..Len(s) : s[i] # " " /\ (i = 1 \/ s[i - 1] = " ")})

\* a query that is not a string at all (Python None)
NoneQuery == <<"<None>">>

-----------------------------------------------------------------------------
(* router/types.py *)

tRETRIEVAL     == <<"r","e","t","r","i","e","v","a","l">>
tDIRECT        == <<"d","i","r","e","c","t">>
tCALCULATION   == <<"c","a","l","c","u","l","a","t","i","o","n">>
tWEB_SEARCH    == <<"w","e","b","_","s","e","a","r","c","h">>
tCLARIFICATION == <<"c","l","a","r","i","f","i","c","a","t","i","o","n">>

\* the enum: member name |-> member value
QueryType ==
    [RETRIEVAL |-> tRETRIEVAL, DIRECT |-> tDIRECT, CALCULATION |-> tCALCULATION,
     WEB_SEARCH |-> tWEB_SEARCH, CLARIFICATION |-> tCLARIFICATION]

QueryTypeNames == DOMAIN QueryType

\* QueryType(value): the member with that value; raises ValueError otherwise
IsQueryTypeValue(v) == \E n \in QueryTypeNames : QueryType[n] = v

QueryTypeOf(v) == CHOOSE n \in QueryTypeNames : QueryType[n] = v

-----------------------------------------------------------------------------
(* router/chain.py *)

ConfDefault     == 50
ConfWebSearch   == 90
ConfCalculation == 95
ConfDirect      == 80
ConfRetrieval   == 90

Absent    == [tag |-> "absent"]
NotString == [tag |-> "not_a_string"]
NotNumber == [tag |-> "not_a_number"]
Str(s)    == [tag |-> "str", val |-> s]
Num(n)    == [tag |-> "num", val |-> n]
Bool(b)   == [tag |-> "bool", val |-> b]

\* the dictionary _parse_response returns when parsing fails
DefaultParsed ==
    [query_type      |-> tRETRIEVAL,
     confidence      |-> ConfDefault,
     should_retrieve |-> TRUE,
     retrieval_query |-> "",
     reasoning       |-> "Failed to parse response."]

\* a parser that defaults each unusable field on its own instead of giving up
\* the whole reply
ParseResponsePerField(r) ==
    IF r.kind # "object" THEN DefaultParsed
    ELSE
      [query_type      |-> IF r.query_type.tag \in {"absent", "not_a_string"} THEN tRETRIEVAL
                           ELSE ToLower(r.query_type.val),
       confidence      |-> IF r.confidence.tag \in {"absent", "not_a_number"} THEN ConfDefault
                           ELSE r.confidence.val,
       should_retrieve |-> IF r.should_retrieve.tag = "absent" THEN TRUE
                           ELSE r.should_retrieve.val,
       retrieval_query |-> IF r.retrieval_query.tag = "absent" THEN ""
                           ELSE r.retrieval_query.val,
       reasoning       |-> IF r.reasoning.tag = "absent" THEN "No reasoning provided."
                           ELSE r.reasoning.val]

\* json.loads(response) and the field extraction; any exception gives the default
ParseResponse(r) ==
    IF r.kind # "object" THEN DefaultParsed
    ELSE IF r.query_type.tag = "not_a_string" THEN DefaultParsed
    ELSE IF r.confidence.tag = "not_a_number" THEN DefaultParsed
    ELSE
      [query_type      |-> IF r.query_type.tag = "absent" THEN tRETRIEVAL
                           ELSE ToLower(r.query_type.val),
       confidence      |-> IF r.confidence.tag = "absent" THEN ConfDefault
                           ELSE r.confidence.val,
       should_retrieve |-> IF r.should_retrieve.tag = "absent" THEN TRUE
                           ELSE r.should_retrieve.val,
       retrieval_query |-> IF r.retrieval_query.tag = "absent" THEN ""
                           ELSE r.retrieval_query.val,
       reasoning       |-> IF r.reasoning.tag = "absent" THEN "No reasoning provided."
                           ELSE r.reasoning.val]

WebSearchWords ==
    { <<"l","a","t","e","s","t">>, <<"r","e","c","e","n","t">>,
      <<"c","u","r","r","e","n","t">>, <<"n","o","w">>, <<"t","o","d","a","y">>,
      <<"n","e","w","s">>, <<"u","p","d","a","t","e">>, <<"n","e","w","e","s","t">>,
      <<"t","h","i","s"," ","w","e","e","k">>, <<"t","h","i","s"," ","m","o","n","t","h">> }

CalculationChars == {"+", "-", "*", "/", "%"}

CalculationWords ==
    { <<"c","a","l","c","u","l","a","t","e">>, <<"c","o","m","p","u","t","e">>,
      <<"s","u","m">> }

DirectWords ==
    { <<"w","h","a","t"," ","i","s">>, <<"w","h","o"," ","i","s">>,
      <<"t","e","l","l"," ","m","e">>, <<"e","x","p","l","a","i","n">> }

DirectWordLimit == 6

RetrievalWords ==
    { <<"d","o","c","u","m","e","n","t">>, <<"d","o","c","s">>,
      <<"c","o","n","t","e","n","t">>, <<"f","i","n","d"," ","i","n">> }

\* _check_query_patterns matching the cue words against the query as written,
\* without query.lower()
CheckQueryPatternsCaseSensitive(q) ==
    [is_web_search  |-> \E w \in WebSearchWords : Contains(q, w),
     is_calculation |-> \/ \E c \in CalculationChars : Contains(q, <<c>>)
                        \/ \E w \in CalculationWords : Contains(q, w),
     is_direct      |-> /\ \E w \in DirectWords : Contains(q, w)
                        /\ WordCount(q) < DirectWordLimit,
     is_retrieval   |-> \E w \in RetrievalWords : Contains(q, w)]

\* _check_query_patterns, for a query that is a string
CheckQueryPatterns(q) ==
    LET query_lower == ToLower(q) IN
    [is_web_search  |-> \E w \in WebSearchWords : Contains(query_lower, w),
     is_calculation |-> \/ \E c \in CalculationChars : Contains(q, <<c>>)
                        \/ \E w \in CalculationWords : Contains(query_lower, w),
     is_direct      |-> /\ \E w \in DirectWords : Contains(query_lower, w)
                        /\ WordCount(q) < DirectWordLimit,
     is_retrieval   |-> \E w \in RetrievalWords : Contains(query_lower, w)]

\* the chain with the calculation test placed before the web-search test
ApplyOverridesCalcFirst(parsed, patterns) ==
    IF patterns.is_calculation THEN
      [parsed EXCEPT !.query_type = <<"C","A","L","C","U","L","A","T","I","O","N">>,
                     !.confidence = ConfCalculation,
                     !.should_retrieve = FALSE,
                     !.reasoning = "Query requires mathematical computation"]
    ELSE IF patterns.is_web_search THEN
      [parsed EXCEPT !.query_type = <<"W","E","B","_","S","E","A","R","C","H">>,
                     !.confidence = ConfWebSearch,
                     !.should_retrieve = FALSE,
                     !.reasoning = "Query requires current information"]
    ELSE IF patterns.is_direct THEN
      [parsed EXCEPT !.query_type = <<"D","I","R","E","C","T">>,
                     !.confidence = ConfDirect,
                     !.should_retrieve = FALSE,
                     !.reasoning = "Simple direct question"]
    ELSE IF patterns.is_retrieval THEN
      [parsed EXCEPT !.query_type = <<"R","E","T","R","I","E","V","A","L">>,
                     !.confidence = ConfRetrieval,
                     !.should_retrieve = TRUE,
                     !.reasoning = "Query requires document search"]
    ELSE parsed

\* the chain with the direct test placed before the calculation test
ApplyOverridesDirectFirst(parsed, patterns) ==
    IF patterns.is_web_search THEN
      [parsed EXCEPT !.query_type = <<"W","E","B","_","S","E","A","R","C","H">>,
                     !.confidence = ConfWebSearch,
                     !.should_retrieve = FALSE,
                     !.reasoning = "Query requires current information"]
    ELSE IF patterns.is_direct THEN
      [parsed EXCEPT !.query_type = <<"D","I","R","E","C","T">>,
                     !.confidence = ConfDirect,
                     !.should_retrieve = FALSE,
                     !.reasoning = "Simple direct question"]
    ELSE IF patterns.is_calculation THEN
      [parsed EXCEPT !.query_type = <<"C","A","L","C","U","L","A","T","I","O","N">>,
                     !.confidence = ConfCalculation,
                     !.should_retrieve = FALSE,
                     !.reasoning = "Query requires mathematical computation"]
    ELSE IF patterns.is_retrieval THEN
      [parsed EXCEPT !.query_type = <<"R","E","T","R","I","E","V","A","L">>,
                     !.confidence = ConfRetrieval,
                     !.should_retrieve = TRUE,
                     !.reasoning = "Query requires document search"]
    ELSE parsed

\* the if/elif chain of route that overrides the parsed reply
ApplyOverrides(parsed, patterns) ==
    IF patterns.is_web_search THEN
      [parsed EXCEPT !.query_type = <<"W","E","B","_","S","E","A","R","C","H">>,
                     !.confidence = ConfWebSearch,
                     !.should_retrieve = FALSE,
                     !.reasoning = "Query requires current information"]
    ELSE IF patterns.is_calculation THEN
      [parsed EXCEPT !.query_type = <<"C","A","L","C","U","L","A","T","I","O","N">>,
                     !.confidence = ConfCalculation,
                     !.should_retrieve = FALSE,
                     !.reasoning = "Query requires mathematical computation"]
    ELSE IF patterns.is_direct THEN
      [parsed EXCEPT !.query_type = <<"D","I","R","E","C","T">>,
                     !.confidence = ConfDirect,
                     !.should_retrieve = FALSE,
                     !.reasoning = "Simple direct question"]
    ELSE IF patterns.is_retrieval THEN
      [parsed EXCEPT !.query_type = <<"R","E","T","R","I","E","V","A","L">>,
                     !.confidence = ConfRetrieval,
                     !.should_retrieve = TRUE,
                     !.reasoning = "Query requires document search"]
    ELSE parsed

\* retrieval_query=None of the response built in route's except branch
None == [tag |-> "none"]

\* an exception leaving a block, with its message
Raised(msg) == [tag |-> "raised", msg |-> msg]

\* an except branch that builds its response without a query type
RouteFallbackUntyped(msg) ==
    [tag             |-> "response",
     query_type      |-> "NONE",
     confidence      |-> ConfDefault,
     should_retrieve |-> TRUE,
     retrieval_query |-> None,
     reasoning       |-> [tag |-> "error_in_routing", val |-> msg],
     patterns        |-> None]

\* the RouterResponse of route's except branch
RouteFallback(msg) ==
    [tag             |-> "response",
     query_type      |-> "RETRIEVAL",
     confidence      |-> ConfDefault,
     should_retrieve |-> TRUE,
     retrieval_query |-> None,
     reasoning       |-> [tag |-> "error_in_routing", val |-> msg],
     patterns        |-> None]

\* the try block of route: llm.invoke, _parse_response, _check_query_patterns,
\* the overrides and the construction of the RouterResponse
RouteTry(q, r) ==
    IF r.kind = "raise" THEN Raised(r.msg)
    ELSE LET parsed == ParseResponse(r) IN
      IF q = NoneQuery THEN Raised("'NoneType' object has no attribute 'lower'")
      ELSE LET patterns == CheckQueryPatterns(q)
               final    == ApplyOverrides(parsed, patterns)
               value    == ToLower(final.query_type)
           IN IF ~IsQueryTypeValue(value)
              THEN Raised("is not a valid QueryType")
              ELSE [tag             |-> "response",
                    query_type      |-> QueryTypeOf(value),
                    confidence      |-> final.confidence,
                    should_retrieve |-> final.should_retrieve,
                    retrieval_query |-> Str(final.retrieval_query),
                    reasoning       |-> Str(final.reasoning),
                    patterns        |-> patterns]

\* route without its try/except: an exception reaches the caller
RouteNoExcept(q, r) == RouteTry(q, r)

\* RouterChain.route(q) when the language model's outcome is r
Route(q, r) ==
    LET res == RouteTry(q, r)
    IN IF res.tag = "raised" THEN RouteFallback(res.msg) ELSE res

-----------------------------------------------------------------------------
(* query_processing/analyzer.py and QueryProcessor._determine_path *)

Digits == {"0","1","2","3","4","5","6","7","8","9"}

IsUpper(c) == c \in UpperLetters

IsLower(c) == c \in LowerLetters

\* a character the regular expression class \w matches
IsWordChar(c) == IsUpper(c) \/ IsLower(c) \/ c \in Digits \/ c = "_"

MinEntityLength == 2

\* re.findall(r'\b[A-Z]{2,}\b', q) is not empty
HasEntities(q) ==
    \E i \in 1..Len(q) : \E j \in i..Len(q) :
        /\ j - i + 1 >= MinEntityLength
        /\ \A k \in i..j : IsUpper(q[k])
        /\ (i = 1 \/ ~IsWordChar(q[i - 1]))
        /\ (j = Len(q) \/ ~IsWordChar(q[j + 1]))

LongQueryLength == 100

Bit(b) == IF b THEN 1 ELSE 0

ComplexityFactors == 4

\* _calculate_complexity, in hundredths: the share of the four signals that hold
CalculateComplexity(q) ==
    ((Bit(Len(q) > LongQueryLength) + Bit(Contains(q, <<"?">>))
      + Bit(Contains(q, <<"a","n","d">>)) + Bit(Contains(q, <<"o","r">>))) * 100)
    \div ComplexityFactors

\* QueryAnalyzer.analyze: a query that is not a string makes an extraction step
\* raise, and the except branch returns the default QueryAnalysis()
\* metadata_keys are the keys of the metadata dictionary: the three of the
\* try branch, none in the default QueryAnalysis()
Analyze(q) ==
    IF q = NoneQuery
    THEN [complexity |-> 0, has_entities |-> FALSE, has_question_mark |-> FALSE,
          metadata_keys |-> {}]
    ELSE [complexity        |-> CalculateComplexity(q),
          has_entities      |-> HasEntities(q),
          has_question_mark |-> Contains(q, <<"?">>),
          metadata_keys     |-> {"length", "word_count", "has_question_mark"}]

ComplexityThreshold == 70

\* a decision tree that looks at the entities before the question mark
DeterminePathEntitiesFirst(analysis) ==
    IF analysis.complexity > ComplexityThreshold THEN "advanced"
    ELSE IF analysis.has_entities THEN "entity_focused"
    ELSE IF analysis.has_question_mark THEN "question"
    ELSE "standard"

\* QueryProcessor._determine_path
DeterminePath(analysis) ==
    IF analysis.complexity > ComplexityThreshold THEN "advanced"
    ELSE IF analysis.has_question_mark THEN "question"
    ELSE IF analysis.has_entities THEN "entity_focused"
    ELSE "standard"

-----------------------------------------------------------------------------
(* query_processing/templates.py.  A template is the sequence of its parts:  *)
(* the base template, named by its path, then the appended sections.         *)

\* the keys of ResponseTemplate.TEMPLATES
TemplateNames == {"advanced", "entity_focused", "question", "standard"}

TemplateComplexityThreshold == 70

\* _add_complexity_section, _add_entity_section
AddComplexitySection(tpl) == tpl \o <<"Complexity Analysis">>

AddEntitySection(tpl) == tpl \o <<"Entity Details">>

\* a get_template that adds the entity section only to a template without the
\* complexity section
GetTemplateOneSection(path, analysis) ==
    LET base == <<IF path \in TemplateNames THEN path ELSE "standard">>
    IN IF analysis.complexity > TemplateComplexityThreshold
       THEN AddComplexitySection(base)
       ELSE IF analysis.has_entities THEN AddEntitySection(base)
       ELSE base

\* ResponseTemplate.get_template
GetTemplate(path, analysis) ==
    LET base     == <<IF path \in TemplateNames THEN path ELSE "standard">>
        template1 == IF analysis.complexity > TemplateComplexityThreshold
                     THEN AddComplexitySection(base) ELSE base
    IN IF analysis.has_entities THEN AddEntitySection(template1) ELSE template1

-----------------------------------------------------------------------------
(* query_processing/monitor.py *)

\* dict.get(k, default)
DictGet(d, k, default) == IF k \in DOMAIN d THEN d[k] ELSE default

\* d[k] = v
DictPut(d, k, v) == [x \in (DOMAIN d) \cup {k} |-> IF x = k THEN v ELSE d[x]]

EmptyDict == [x \in {} |-> 0]

\* QueryMonitor.__init__
InitialMetrics ==
    [total_queries      |-> 0,
     successful_queries |-> 0,
     failed_queries     |-> 0,
     processing_times   |-> <<>>,
     path_usage         |-> EmptyDict,
     errors             |-> <<>>]

\* current_start before the first start_processing: the attribute does not exist
Unset == 0

\* _calculate_success_rate, as the fraction num/den
CalculateSuccessRate(m) ==
    IF m.total_queries = 0 THEN [num |-> 0, den |-> 1]
    ELSE [num |-> m.successful_queries, den |-> m.total_queries]

\* get_metrics: the counters and the derived success rate
GetMetrics(m) ==
    [total_queries      |-> m.total_queries,
     successful_queries |-> m.successful_queries,
     failed_queries     |-> m.failed_queries,
     processing_times   |-> m.processing_times,
     path_usage         |-> m.path_usage,
     errors             |-> m.errors,
     success_rate       |-> CalculateSuccessRate(m)]

-----------------------------------------------------------------------------
(* tools/calculator.py.  A float is an exact fraction n/d while numerator    *)
(* and denominator stay below MaxMagnitude, and Inexact beyond that: a       *)
(* finite float whose digits are not tracked.                                *)

MaxMagnitude == 1000000

Float(n, d) == [tag |-> "float", n |-> n, d |-> d]

Inexact == [tag |-> "float_inexact"]

IsFloat(v) == v.tag \in {"float", "float_inexact"}

Abs(n) == IF n < 0 THEN -n ELSE n

RECURSIVE Gcd(_, _)
Gcd(a, b) == IF b = 0 THEN a ELSE Gcd(b, a % b)

\* the float n/d, in lowest terms with a positive denominator
Fraction(n, d) ==
    LET g == Gcd(Abs(n), Abs(d))
        s == IF d < 0 THEN -1 ELSE 1
    IN IF Abs(n) \div g > MaxMagnitude \/ Abs(d) \div g > MaxMagnitude
       THEN Inexact
       ELSE Float(s * (n \div g), s * (d \div g))

\* a * b would leave the tracked range
TooLarge(a, b) == b # 0 /\ Abs(a) > (MaxMagnitude * 1000) \div Abs(b)

\* operator.add, operator.sub, operator.mul on floats
FloatAdd(x, y) ==
    IF x = Inexact \/ y = Inexact THEN Inexact
    ELSE IF TooLarge(x.n, y.d) \/ TooLarge(y.n, x.d) \/ TooLarge(x.d, y.d) THEN Inexact
    ELSE Fraction(x.n * y.d + y.n * x.d, x.d * y.d)

FloatNeg(x) == IF x = Inexact THEN Inexact ELSE Float(-x.n, x.d)

FloatSub(x, y) == FloatAdd(x, FloatNeg(y))

FloatMul(x, y) ==
    IF x = Inexact \/ y = Inexact THEN Inexact
    ELSE IF TooLarge(x.n, y.n) \/ TooLarge(x.d, y.d) THEN Inexact
    ELSE Fraction(x.n * y.n, x.d * y.d)

\* operator.truediv: ZeroDivisionError when the divisor is zero
FloatDiv(x, y) ==
    IF y # Inexact /\ y.n = 0 THEN Raised("float division by zero")
    ELSE IF x = Inexact \/ y = Inexact THEN Inexact
    ELSE IF TooLarge(x.n, y.d) \/ TooLarge(x.d, y.n) THEN Inexact
    ELSE Fraction(x.n * y.d, x.d * y.n)

\* x multiplied by itself k times
RECURSIVE IntPower(_, _)
IntPower(x, k) == IF k = 0 THEN Float(1, 1) ELSE FloatMul(x, IntPower(x, k - 1))

\* operator.pow on floats: ZeroDivisionError for zero to a negative power; a
\* power that is not a whole number is a float the model does not track
FloatPow(x, y) ==
    IF x = Inexact \/ y = Inexact THEN Inexact
    ELSE IF y.d # 1 THEN Inexact
    ELSE IF y.n >= 0 THEN IntPower(x, y.n)
    ELSE IF x.n = 0 THEN Raised("0.0 cannot be raised to a negative power")
    ELSE IntPower(Float(x.d * (IF x.n < 0 THEN -1 ELSE 1), Abs(x.n)), -y.n)

\* ''.join(expression.split()): the expression without its blanks
RECURSIVE RemoveWhitespace(_)
RemoveWhitespace(s) ==
    IF s = <<>> THEN <<>>
    ELSE IF Head(s) = " " THEN RemoveWhitespace(Tail(s))
    ELSE <<Head(s)>> \o RemoveWhitespace(Tail(s))

DigitValue ==
    [c \in {"0","1","2","3","4","5","6","7","8","9"} |->
        CASE c = "0" -> 0 [] c = "1" -> 1 [] c = "2" -> 2 [] c = "3" -> 3
          [] c = "4" -> 4 [] c = "5" -> 5 [] c = "6" -> 6 [] c = "7" -> 7
          [] c = "8" -> 8 [] c = "9" -> 9]

IsDigit(c) == c \in DOMAIN DigitValue

IsNameChar(c) == c \in LowerLetters \/ c \in UpperLetters \/ c = "_"

\* the index of the last character of the run of digits that holds s[i]
RECURSIVE DigitRunEnd(_, _)
DigitRunEnd(s, i) ==
    IF i < Len(s) /\ IsDigit(s[i + 1]) THEN DigitRunEnd(s, i + 1) ELSE i

\* int(digits); a value beyond the tracked range is kept as MaxMagnitude + 1
RECURSIVE DecimalValue(_)
DecimalValue(ds) ==
    IF ds = <<>> THEN 0
    ELSE LET front == DecimalValue(SubSeq(ds, 1, Len(ds) - 1))
         IN IF front > MaxMagnitude THEN MaxMagnitude + 1
            ELSE front * 10 + DigitValue[ds[Len(ds)]]

\* a decimal integer literal starts with a non-zero digit, or is all zeros
ValidDecimal(ds) == ds[1] # "0" \/ \A i \in 1..Len(ds) : ds[i] = "0"

NumToken(n) == [kind |-> "num", n |-> n]
OpToken(o)  == [kind |-> "op", op |-> o]
NameToken   == [kind |-> "name"]
BadToken    == [kind |-> "bad"]
EndToken    == [kind |-> "end"]

\* the tokens of Python's tokenizer, longest operator first.  A digit run
\* followed by a name character or breaking the literal rule is an invalid
\* literal
RECURSIVE Tokenize(_, _)
Tokenize(s, i) ==
    IF i > Len(s) THEN <<>>
    ELSE LET c == s[i]
         IN IF IsDigit(c)
            THEN LET e  == DigitRunEnd(s, i)
                     ds == SubSeq(s, i, e)
                 IN IF ~ValidDecimal(ds)
                       \/ (e < Len(s) /\ IsNameChar(s[e + 1]))
                    THEN <<BadToken>>
                    ELSE <<NumToken(DecimalValue(ds))>> \o Tokenize(s, e + 1)
            ELSE IF IsNameChar(c)
            THEN <<NameToken>> \o Tokenize(s, i + 1)
            ELSE IF c \in {"*", "/"} /\ i < Len(s) /\ s[i + 1] = c
            THEN <<OpToken(<<c, c>>)>> \o Tokenize(s, i + 2)
            ELSE IF c \in {"+", "-", "*", "/", "%", "(", ")"}
            THEN <<OpToken(<<c>>)>> \o Tokenize(s, i + 1)
            ELSE <<BadToken>>

TokenAt(toks, i) == IF i <= Len(toks) THEN toks[i] ELSE EndToken

IsOp(t, ops) == t.kind = "op" /\ t.op \in ops

\* the nodes of the syntax tree
NumNode(n)           == [node |-> "Num", n |-> n]
NameNode             == [node |-> "Name"]
TupleNode            == [node |-> "Tuple"]
BinOpNode(op, l, r)  == [node |-> "BinOp", op |-> op, left |-> l, right |-> r]
UnaryOpNode(op, x)   == [node |-> "UnaryOp", op |-> op, operand |-> x]

SyntaxError == [ok |-> FALSE]

Parsed(tree, pos) == [ok |-> TRUE, tree |-> tree, pos |-> pos]

\* the class of the operator of a BinOp
BinOpClass(o) ==
    CASE o = <<"+">> -> "Add" [] o = <<"-">> -> "Sub" [] o = <<"*">> -> "Mult"
      [] o = <<"/">> -> "Div" [] o = <<"/","/">> -> "FloorDiv"
      [] o = <<"%">> -> "Mod" [] o = <<"*","*">> -> "Pow"

\* Python's expression grammar over these tokens:
\*   arith:  term (('+'|'-') term)*
\*   term:   factor (('*'|'/'|'//'|'%') factor)*
\*   factor: ('+'|'-') factor | power
\*   power:  atom ['**' factor]
\*   atom:   NUMBER | NAME | '(' ')' | '(' arith ')'
\* Calls, subscripts and attribute access only ever give a tree that
\* _eval_node rejects, and are left as syntax errors here.  Parse(rule, ...)
\* parses one rule at token i; the rules with a left operand continue from it.
RECURSIVE Parse(_, _, _, _)
Parse(rule, toks, i, left) ==
    LET t == TokenAt(toks, i)
    IN CASE rule = "atom" ->
              IF t.kind = "num" THEN Parsed(NumNode(t.n), i + 1)
              ELSE IF t.kind = "name" THEN Parsed(NameNode, i + 1)
              ELSE IF IsOp(t, {<<"(">>})
              THEN IF IsOp(TokenAt(toks, i + 1), {<<")">>})
                   THEN Parsed(TupleNode, i + 2)
                   ELSE LET inner == Parse("arith", toks, i + 1, left)
                        IN IF inner.ok /\ IsOp(TokenAt(toks, inner.pos), {<<")">>})
                           THEN Parsed(inner.tree, inner.pos + 1)
                           ELSE SyntaxError
              ELSE SyntaxError
         [] rule = "power" ->
              LET base == Parse("atom", toks, i, left)
              IN IF ~base.ok THEN SyntaxError
                 ELSE IF IsOp(TokenAt(toks, base.pos), {<<"*","*">>})
                 THEN LET exponent == Parse("factor", toks, base.pos + 1, left)
                      IN IF exponent.ok
                         THEN Parsed(BinOpNode("Pow", base.tree, exponent.tree),
                                     exponent.pos)
                         ELSE SyntaxError
                 ELSE base
         [] rule = "factor" ->
              IF IsOp(t, {<<"+">>, <<"-">>})
              THEN LET operand == Parse("factor", toks, i + 1, left)
                   IN IF operand.ok
                      THEN Parsed(UnaryOpNode(IF t.op = <<"-">> THEN "USub" ELSE "UAdd",
                                              operand.tree), operand.pos)
                      ELSE SyntaxError
              ELSE Parse("power", toks, i, left)
         [] rule = "term" ->
              LET first == Parse("factor", toks, i, left)
              IN IF first.ok THEN Parse("term_rest", toks, first.pos, first.tree)
                 ELSE SyntaxError
         [] rule = "term_rest" ->
              IF IsOp(t, {<<"*">>, <<"/">>, <<"/","/">>, <<"%">>})
              THEN LET right == Parse("factor", toks, i + 1, left)
                   IN IF right.ok
                      THEN Parse("term_rest", toks, right.pos,
                                 BinOpNode(BinOpClass(t.op), left, right.tree))
                      ELSE SyntaxError
              ELSE Parsed(left, i)
         [] rule = "arith" ->
              LET first == Parse("term", toks, i, left)
              IN IF first.ok THEN Parse("arith_rest", toks, first.pos, first.tree)
                 ELSE SyntaxError
         [] rule = "arith_rest" ->
              IF IsOp(t, {<<"+">>, <<"-">>})
              THEN LET right == Parse("term", toks, i + 1, left)
                   IN IF right.ok
                      THEN Parse("arith_rest", toks, right.pos,
                                 BinOpNode(BinOpClass(t.op), left, right.tree))
                      ELSE SyntaxError
              ELSE Parsed(left, i)

\* ast.parse(expression, mode='eval'): the whole text is one expression
AstParse(s) ==
    LET toks == Tokenize(s, 1)
        tree == Parse("arith", toks, 1, NameNode)
    IN IF tree.ok /\ tree.pos = Len(toks) + 1 THEN tree ELSE SyntaxError

\* self.allowed_operators
AllowedOperators == {"Add", "Sub", "Mult", "Div", "Pow", "USub"}

\* self.allowed_operators[type(node.op)](left, right)
ApplyOperator(op, left, right) ==
    CASE op = "Add"  -> FloatAdd(left, right)
      [] op = "Sub"  -> FloatSub(left, right)
      [] op = "Mult" -> FloatMul(left, right)
      [] op = "Div"  -> FloatDiv(left, right)
      [] op = "Pow"  -> FloatPow(left, right)

\* _eval_node: the float of the tree, or the exception it raises
RECURSIVE EvalNode(_)
EvalNode(node) ==
    IF node.node = "Num" THEN Fraction(node.n, 1)
    ELSE IF node.node = "BinOp"
    THEN IF node.op \notin AllowedOperators
         THEN Raised("Unsupported operation")
         ELSE LET left == EvalNode(node.left)
              IN IF ~IsFloat(left) THEN left
                 ELSE LET right == EvalNode(node.right)
                      IN IF ~IsFloat(right) THEN right
                         ELSE ApplyOperator(node.op, left, right)
    ELSE IF node.node = "UnaryOp" /\ node.op = "USub"
    THEN LET operand == EvalNode(node.operand)
         IN IF ~IsFloat(operand) THEN operand ELSE FloatNeg(operand)
    ELSE Raised("Unsupported node type")

\* the try block of evaluate
EvaluateTry(expression) ==
    IF expression = NoneQuery
    THEN Raised("'NoneType' object has no attribute 'split'")
    ELSE LET stripped == RemoveWhitespace(expression)
         IN IF stripped = <<>> THEN None
            ELSE LET tree == AstParse(stripped)
                 IN IF ~tree.ok THEN Raised("invalid syntax")
                    ELSE EvalNode(tree.tree)

\* an evaluate that rejects a text with blanks instead of removing them
EvaluateKeepingWhitespace(expression) ==
    IF expression = NoneQuery \/ expression = <<>> THEN None
    ELSE IF \E i \in 1..Len(expression) : expression[i] = " " THEN None
    ELSE LET tree == AstParse(expression)
         IN IF ~tree.ok THEN None
            ELSE LET v == EvalNode(tree.tree) IN IF IsFloat(v) THEN v ELSE None

\* Calculator.evaluate: any exception is logged and becomes None
Evaluate(expression) ==
    LET result == EvaluateTry(expression)
    IN IF result.tag = "raised" THEN None ELSE result

\* the characters the pattern of _extract_math_expression allows between the
\* two numbers: [\s\+\-\*/\(\)]
ExpressionChars == {" ", "+", "-", "*", "/", "(", ")"}

\* the index of the last character of the run of such characters after s[i]
RECURSIVE OperatorRunEnd(_, _)
OperatorRunEnd(s, i) ==
    IF i < Len(s) /\ s[i + 1] \in ExpressionChars THEN OperatorRunEnd(s, i + 1) ELSE i

\* the pattern \d+[\s\+\-\*/\(\)]+\d+ matches at i
MatchesAt(s, i) ==
    /\ IsDigit(s[i])
    /\ LET e == DigitRunEnd(s, i)
           o == OperatorRunEnd(s, e)
       IN o > e /\ o < Len(s) /\ IsDigit(s[o + 1])

\* the text the pattern matches at i, every repetition being greedy
MatchAt(s, i) ==
    SubSeq(s, i, DigitRunEnd(s, OperatorRunEnd(s, DigitRunEnd(s, i)) + 1))

\* _extract_math_expression: the leftmost match of the pattern, or None; a
\* query that is not a string makes re.search raise TypeError
ExtractMathExpression(q) ==
    IF q = NoneQuery THEN Raised("expected string or bytes-like object")
    ELSE LET starts == {i \in 1..Len(q) : MatchesAt(q, i)}
         IN IF starts = {} THEN None
            ELSE Str(MatchAt(q, CHOOSE i \in starts : \A j \in starts : i <= j))

-----------------------------------------------------------------------------
(* tools/web_search.py.  A search result is given by what _validate_results  *)
(* reads of it; both sources build their results with title, link and        *)
(* snippet, and catch their own exceptions, answering [] instead.            *)

MaxRetries == 3

MaxResultsDefault == 3

MinSnippetLength == 50

\* the first characters of a title that _validate_results looks at
TitleCheckLength == 100

\* the keys of the dictionaries _ddg_search and _google_news_search build
SourceKeys(source) ==
    IF source = "google_news" THEN {"title", "link", "snippet", "source", "date"}
    ELSE {"title", "link", "snippet", "source"}

RequiredKeys == {"title", "link", "snippet"}

\* a result, by what _validate_results reads of it: its keys, the length of
\* its snippet, the length of its title and where the title's first
\* character outside ASCII stands (0: nowhere)
SearchResult(source, snippet_len, title_len, first_non_ascii) ==
    [source |-> source, keys |-> SourceKeys(source), snippet_len |-> snippet_len,
     title_len |-> title_len, first_non_ascii |-> first_non_ascii]

\* the results a source can answer with: a usable one, one with a short
\* snippet, one whose title begins outside ASCII, and one with a long title
\* that leaves ASCII after its first TitleCheckLength characters
ResultKinds(source) ==
    { SearchResult(source, MinSnippetLength, 1, 0),
      SearchResult(source, MinSnippetLength - 1, 1, 0),
      SearchResult(source, MinSnippetLength, 1, 1),
      SearchResult(source, MinSnippetLength, TitleCheckLength + 1, TitleCheckLength + 1) }

RECURSIVE SeqsUpTo(_, _)
SeqsUpTo(S, n) ==
    IF n = 0 THEN {<<>>}
    ELSE LET shorter == SeqsUpTo(S, n - 1)
         IN shorter \cup {Append(s, x) : s \in {r \in shorter : Len(r) = n - 1}, x \in S}

\* what _ddg_search and _google_news_search can return
SourceOutcomes(source) == SeqsUpTo(ResultKinds(source), MaxSourceResults)

\* _validate_results: the results that pass, in their order
RECURSIVE ValidateResults(_)
ValidateResults(results) ==
    IF results = <<>> THEN <<>>
    ELSE LET r == Head(results)
         IN IF \/ ~(RequiredKeys \subseteq r.keys)
               \/ r.snippet_len < MinSnippetLength
               \/ r.first_non_ascii \in 1..TitleCheckLength
            THEN ValidateResults(Tail(results))
            ELSE <<r>> \o ValidateResults(Tail(results))

\* s[:n]
Prefix(s, n) == SubSeq(s, 1, IF Len(s) < n THEN Len(s) ELSE n)

NotReturned == [tag |-> "not_returned"]

\* the local variables of search before the call
IdleSearch ==
    [pc          |-> "idle",
     attempt     |-> 0,
     all_results |-> <<>>,
     queries     |-> <<>>,         \* history: the source queries made, in order
     waits       |-> <<>>,         \* history: the attempts followed by a backoff wait
     returned    |-> NotReturned]

\* search(query) is called: all_results = [] and the loop begins
SearchCall ==
    /\ search.pc = "idle"
    /\ search' = [search EXCEPT !.pc = "loop"]
    /\ UNCHANGED <<routeVars, pipeVars, template, calculation, lookup>>

\* a loop that goes on to the next attempt whether or not results came back
PrimaryAttemptNoBreak ==
    /\ search.pc = "loop"
    /\ search.attempt < MaxRetries
    /\ \E results \in SourceOutcomes("duckduckgo") :
         search' = [search EXCEPT
                      !.queries = Append(@, [source |-> "duckduckgo",
                                             empty  |-> results = <<>>]),
                      !.all_results = @ \o results,
                      !.pc = "backoff"]
    /\ UNCHANGED <<routeVars, pipeVars, template, calculation, lookup>>

\* one pass of `for attempt in range(self.max_retries)`: the primary source
\* is queried; results end the loop, an empty answer leads to the backoff
PrimaryAttempt ==
    /\ search.pc = "loop"
    /\ search.attempt < MaxRetries
    /\ \E results \in SourceOutcomes("duckduckgo") :
         search' = [search EXCEPT
                      !.queries = Append(@, [source |-> "duckduckgo",
                                             empty  |-> results = <<>>]),
                      !.all_results = @ \o results,
                      !.pc = IF results # <<>> THEN "fallback" ELSE "backoff"]
    /\ UNCHANGED <<routeVars, pipeVars, template, calculation, lookup>>

\* _handle_rate_limit(attempt): the wait; then the next pass, if there is one
Backoff ==
    /\ search.pc = "backoff"
    /\ search' = [search EXCEPT
                    !.waits = Append(@, search.attempt),
                    !.attempt = @ + 1,
                    !.pc = IF search.attempt + 1 < MaxRetries THEN "loop" ELSE "fallback"]
    /\ UNCHANGED <<routeVars, pipeVars, template, calculation, lookup>>

\* `if not all_results:` the secondary source is queried
GoogleNewsFallback ==
    /\ search.pc = "fallback"
    /\ IF search.all_results = <<>>
       THEN \E news_results \in SourceOutcomes("google_news") :
              search' = [search EXCEPT
                           !.queries = Append(@, [source |-> "google_news",
                                                  empty  |-> news_results = <<>>]),
                           !.all_results = @ \o news_results,
                           !.pc = "validate"]
       ELSE search' = [search EXCEPT !.pc = "validate"]
    /\ UNCHANGED <<routeVars, pipeVars, template, calculation, lookup>>

\* _validate_results and `return valid_results[:max_results]`
ValidateAndReturn ==
    /\ search.pc = "validate"
    /\ search' = [search EXCEPT
                    !.returned = Prefix(ValidateResults(search.all_results),
                                        MaxResultsDefault),
                    !.pc = "returned"]
    /\ UNCHANGED <<routeVars, pipeVars, template, calculation, lookup>>

-----------------------------------------------------------------------------
(* integration/rag_pipeline.py: the handlers.  A dictionary is a record with     *)
(* exactly the keys the code sets; an external call (language model, web        *)
(* search, vector store, calculator) is given by its outcome.                   *)

NoErr == "<no error>"

\* what llm.invoke returns when it returns
LLMText == "llm answer"

\* an outcome of llm.invoke inside a handler: it returns, or it raises msg
LLMOutcomes == { [kind |-> "ok"], [kind |-> "raise", msg |-> "LLM failure"] }

\* _handle_direct
HandleDirect(llm) ==
    IF llm.kind = "ok"
    THEN [response |-> LLMText, success |-> TRUE,
          metadata |-> [direct_response |-> TRUE]]
    ELSE [response |-> "I apologize, but I'm having trouble processing that request at the moment.",
          success  |-> FALSE,
          error    |-> llm.msg]

\* the dictionary of _handle_web_search's except branch
WebSearchError(msg) ==
    [success       |-> FALSE,
     error         |-> msg,
     response      |-> "I apologize, but I'm having trouble accessing current information right now.",
     fallback_used |-> TRUE]

\* _handle_web_search: the outcome of web_search_tool.search is "results",
\* "empty" or "raise"
HandleWebSearch(outcome, llm) ==
    IF outcome = "raise" THEN WebSearchError("search failure")
    ELSE IF outcome = "empty"
    THEN [success       |-> FALSE,
          error         |-> "No search results found",
          response      |-> "I apologize, but I couldn't find any recent information about that topic.",
          fallback_used |-> TRUE]
    ELSE IF llm.kind = "raise" THEN WebSearchError(llm.msg)
    ELSE [success  |-> TRUE,
          response |-> LLMText,
          context  |-> "formatted results",
          metadata |-> [result_count |-> 1]]

\* a search-failure handler that reports failure whatever the direct path did
HandleSearchFailureForced(llm) ==
    [success       |-> FALSE,
     response      |-> "I apologize, but I'm currently unable to access real-time information",
     error         |-> "Search failed and fallback unavailable",
     fallback_used |-> TRUE]

\* _handle_search_failure
HandleSearchFailure(llm) ==
    LET direct_result == HandleDirect(llm)
    IN IF DictGet(direct_result, "success", FALSE)
       THEN [response      |-> direct_result.response,
             success       |-> direct_result.success,
             metadata      |-> direct_result.metadata,
             fallback_used |-> TRUE]
       ELSE [success       |-> FALSE,
             response      |-> "I apologize, but I'm currently unable to access real-time information",
             error         |-> "Search failed and fallback unavailable",
             fallback_used |-> TRUE]

\* _handle_retrieval_fallback
HandleRetrievalFallback ==
    [context |-> "", results |-> <<>>, success |-> FALSE,
     error   |-> "Retrieval failed, no relevant information found."]

\* a retrieval handler that passes an empty result list on as a success
HandleRetrievalEmptyOk(manager, retrieval) ==
    IF manager = "none" THEN HandleRetrievalFallback
    ELSE IF retrieval \in {"no_store", "raise"} THEN HandleRetrievalFallback
    ELSE [context        |-> IF retrieval = "empty" THEN "" ELSE "retrieved text",
          results        |-> IF retrieval = "empty" THEN <<>> ELSE <<"retrieved text">>,
          selected_store |-> Str("default"),
          success        |-> TRUE]

\* _handle_retrieval: retrieval is "no_store", "raise", "empty" or "results"
HandleRetrieval(manager, retrieval) ==
    IF manager = "none" THEN HandleRetrievalFallback
    ELSE IF retrieval \in {"no_store", "raise", "empty"} THEN HandleRetrievalFallback
    ELSE [context        |-> "retrieved text",
          results        |-> <<"retrieved text">>,
          selected_store |-> Str("default"),
          success        |-> TRUE]

\* the names a store can be registered under, and a name no store has
StoreNames == {"docs", "wiki", "code"}

MissingStore == "missing"

\* the cosine scores, in hundredths, of a store's best match
Scores == {20, 80}

\* what store.search(query, limit=1) gives: no result (the search raising is
\* turned into no result by search_all), or a top result with its score
NoTop == [found |-> FALSE, score |-> 0]

Top(score) == [found |-> TRUE, score |-> score]

Tops == {NoTop} \cup {Top(s) : s \in Scores}

\* the sequences of at most n different elements of S
RECURSIVE DistinctSeqs(_, _)
DistinctSeqs(S, n) ==
    IF n = 0 THEN {<<>>}
    ELSE LET shorter == DistinctSeqs(S, n - 1)
         IN shorter \cup
            UNION { {Append(s, x) : x \in S \ {s[k] : k \in 1..Len(s)}} :
                    s \in {r \in shorter : Len(r) = n - 1} }

\* a VectorStoreManager: the names of self.stores in insertion order, and the
\* top result of each store for the query
Managers ==
    [names : DistinctSeqs(StoreNames, MaxStores), top : [StoreNames -> Tops]]

HasStore(manager, name) == \E i \in 1..Len(manager.names) : manager.names[i] = name

\* a store_preference: None, or a string (the empty one included)
Preferences == {None, Str("")} \cup {Str(n) : n \in StoreNames \cup {MissingStore}}

\* the truth value Python gives a store_preference
Truthy(store_preference) == store_preference # None /\ store_preference # Str("")

\* the loop of determine_best_store over the stores from position i on: a
\* store wins only with a score above the best one so far
RECURSIVE BestStoreFrom(_, _, _, _)
BestStoreFrom(manager, i, best_store, best_score) ==
    IF i > Len(manager.names) THEN best_store
    ELSE LET store_name == manager.names[i]
             results    == manager.top[store_name]
         IN IF results.found /\ results.score > best_score
            THEN BestStoreFrom(manager, i + 1, Str(store_name), results.score)
            ELSE BestStoreFrom(manager, i + 1, best_store, best_score)

\* determine_best_store(query, store_preference); next(iter(self.stores))
\* raises StopIteration when there is no store
DetermineBestStore(manager, store_preference) ==
    IF Truthy(store_preference) /\ HasStore(manager, store_preference.val)
    THEN store_preference
    ELSE LET best_store == BestStoreFrom(manager, 1, None, -100)
         IN IF best_store # None THEN best_store
            ELSE IF manager.names = <<>> THEN Raised("StopIteration")
            ELSE Str(manager.names[1])

\* `store_preference or self.vector_store_manager.determine_best_store(query)`:
\* determine_best_store is not given the preference
StoreName(manager, store_preference) ==
    IF Truthy(store_preference) THEN store_preference
    ELSE DetermineBestStore(manager, None)

NoManager == [tag |-> "no_manager"]

\* _handle_retrieval with its store selection: outcome is what
\* store.search(query, limit=3) does ("results", "empty" or "raise");
\* searched is the store that search was called on, if any
HandleRetrievalIn(manager, store_preference, outcome) ==
    IF manager = NoManager
    THEN [searched |-> None, result |-> HandleRetrievalFallback]
    ELSE LET store_name == StoreName(manager, store_preference)
         IN IF store_name.tag = "raised"
            THEN [searched |-> None, result |-> HandleRetrievalFallback]
            ELSE IF ~HasStore(manager, store_name.val)
            THEN [searched |-> None, result |-> HandleRetrievalFallback]
            ELSE [searched |-> store_name,
                  result   |-> IF outcome # "results" THEN HandleRetrievalFallback
                               ELSE [context        |-> "retrieved text",
                                     results        |-> <<"retrieved text">>,
                                     selected_store |-> store_name,
                                     success        |-> TRUE]]

\* _handle_retrieval before it is called
IdleLookup ==
    [manager |-> NoManager, store_preference |-> None, outcome |-> "results",
     returned |-> NotReturned]

\* _handle_calculation
HandleCalculation(q) ==
    LET expression == ExtractMathExpression(q)
    IN IF expression.tag = "raised"
       THEN [success |-> FALSE, error |-> expression.msg]
       ELSE IF expression = None
       THEN [success |-> FALSE, error |-> "No valid mathematical expression found"]
       ELSE [result     |-> Evaluate(expression.val),
             expression |-> expression,
             success    |-> TRUE]

\* generate_response
GenerateResponse(context, llm) ==
    IF llm.kind = "ok"
    THEN [response |-> LLMText, success |-> TRUE, context_used |-> context]
    ELSE [response |-> "Failed to generate response", error |-> llm.msg,
          success  |-> FALSE]

\* the outcomes of the external calls of one dispatch
Envs ==
    [search : {"results", "empty", "raise"},
     retrieval : {"no_store", "raise", "empty", "results"},
     llm : LLMOutcomes,
     llm_fallback : LLMOutcomes]

\* the external calls the dispatch of one query type makes; the others are
\* not made and keep one fixed outcome
EnvsFor(query_type, manager) ==
    { e \in Envs :
        /\ (query_type # "WEB_SEARCH" => e.search = "results" /\ e.llm_fallback.kind = "ok")
        /\ (query_type = "WEB_SEARCH"
              => /\ (e.search # "results" => e.llm.kind = "ok")
                 /\ (e.search = "results" /\ e.llm.kind = "ok" => e.llm_fallback.kind = "ok"))
        /\ (query_type # "RETRIEVAL" \/ manager = "none" => e.retrieval = "results")
        /\ (query_type \in {"CALCULATION", "CLARIFICATION"} => e.llm.kind = "ok")
        /\ (query_type = "RETRIEVAL" /\ (manager = "none" \/ e.retrieval # "results")
              => e.llm.kind = "ok") }

\* str(result) of a float: a whole number prints with ".0"; the decimal
\* expansion of any other fraction is written as numerator/denominator
FloatRepr(v) ==
    IF v = Inexact THEN "<float>"
    ELSE IF v.d = 1 THEN ToString(v.n) \o ".0"
    ELSE ToString(v.n) \o "/" \o ToString(v.d)

\* f"The result is {result}"
FormatResult(v) ==
    IF v = None THEN "The result is None" ELSE "The result is " \o FloatRepr(v)

\* the if/elif chain of process_query that builds `response` from the handler
Dispatch(q, query_type, manager, e) ==
    IF query_type = "WEB_SEARCH" THEN
      LET web_result == HandleWebSearch(e.search, e.llm)
      IN IF ~DictGet(web_result, "success", FALSE)
         THEN LET fallback_result == HandleSearchFailure(e.llm_fallback)
              IN [response      |-> DictGet(fallback_result, "response", ""),
                  success       |-> DictGet(fallback_result, "success", FALSE),
                  metadata      |-> DictGet(fallback_result, "metadata", EmptyDict),
                  fallback_used |-> TRUE]
         ELSE [response |-> DictGet(web_result, "response", ""),
               success  |-> DictGet(web_result, "success", TRUE),
               metadata |-> [result_count |-> 1, web_search |-> TRUE]]
    ELSE IF query_type = "DIRECT" THEN
      LET direct_result == HandleDirect(e.llm)
      IN [response |-> DictGet(direct_result, "response", ""),
          success  |-> DictGet(direct_result, "success", FALSE),
          metadata |-> DictGet(direct_result, "metadata", EmptyDict)]
    ELSE IF query_type = "CALCULATION" THEN
      LET calc_result == HandleCalculation(q)
      IN [response |-> FormatResult(DictGet(calc_result, "result", None)),
          success  |-> DictGet(calc_result, "success", FALSE),
          metadata |-> [expression |-> DictGet(calc_result, "expression", None)]]
    ELSE IF query_type = "RETRIEVAL" THEN
      LET retrieval_result == HandleRetrieval(manager, e.retrieval)
      IN IF DictGet(retrieval_result, "success", FALSE)
         THEN LET generated == GenerateResponse(DictGet(retrieval_result, "context", ""), e.llm)
              IN DictPut(generated, "selected_store",
                         DictGet(retrieval_result, "selected_store", None))
         ELSE [response      |-> "Could not find relevant information in the documents.",
               success       |-> FALSE,
               fallback_used |-> TRUE]
    ELSE [response |-> "Unsupported query type.", success |-> FALSE]

\* the external components the dispatch calls: the web search tool, the
\* vector store manager and its stores, the calculator, the language model
DispatchCalls(q, query_type, manager, e) ==
    IF query_type = "WEB_SEARCH" THEN {"web_search", "language_model"}
    ELSE IF query_type = "DIRECT" THEN {"language_model"}
    ELSE IF query_type = "CALCULATION"
    THEN IF DictGet(HandleCalculation(q), "success", FALSE) THEN {"calculator"} ELSE {}
    ELSE IF query_type = "RETRIEVAL"
    THEN (IF manager = "none" THEN {} ELSE {"vector_store"})
         \cup (IF DictGet(HandleRetrieval(manager, e.retrieval), "success", FALSE)
               THEN {"language_model"} ELSE {})
    ELSE {}

\* the handlers the dispatch runs, in order: the one of the query type, and
\* _handle_direct through _handle_search_failure after a failed web search
DispatchHandlers(query_type, manager, e) ==
    IF query_type = "WEB_SEARCH"
    THEN IF DictGet(HandleWebSearch(e.search, e.llm), "success", FALSE)
         THEN <<"_handle_web_search">>
         ELSE <<"_handle_web_search", "_handle_direct">>
    ELSE IF query_type = "DIRECT" THEN <<"_handle_direct">>
    ELSE IF query_type = "CALCULATION" THEN <<"_handle_calculation">>
    ELSE IF query_type = "RETRIEVAL" THEN <<"_handle_retrieval">>
    ELSE <<>>

\* how many times the dispatch calls llm.invoke
DispatchLLMCalls(query_type, manager, e) ==
    IF query_type = "WEB_SEARCH"
    THEN Bit(e.search = "results")
         + Bit(~DictGet(HandleWebSearch(e.search, e.llm), "success", FALSE))
    ELSE IF query_type = "DIRECT" THEN 1
    ELSE IF query_type = "RETRIEVAL"
    THEN Bit(DictGet(HandleRetrieval(manager, e.retrieval), "success", FALSE))
    ELSE 0

\* the state a returned response ends the query in
TerminalState(response) ==
    IF DictGet(response, "fallback_used", FALSE) THEN "fallback"
    ELSE IF DictGet(response, "success", FALSE) THEN "succeeded"
    ELSE "failed"

\* the message of a language-model exception raised during the dispatch, if any
DispatchLLMError(query_type, manager, e) ==
    IF query_type = "WEB_SEARCH" THEN
      IF e.search = "results" /\ e.llm.kind = "raise" THEN e.llm.msg
      ELSE IF e.search # "results" /\ e.llm_fallback.kind = "raise" THEN e.llm_fallback.msg
      ELSE NoErr
    ELSE IF query_type = "DIRECT" THEN
      IF e.llm.kind = "raise" THEN e.llm.msg ELSE NoErr
    ELSE IF query_type = "RETRIEVAL" THEN
      IF manager # "none" /\ e.retrieval = "results" /\ e.llm.kind = "raise"
      THEN e.llm.msg ELSE NoErr
    ELSE NoErr

\* the dictionary process_query returns after the dispatch
SuccessResult(q, path, dec, response) ==
    [query           |-> q,
     processed_query |-> q,
     query_type      |-> QueryType[dec.query_type],
     confidence      |-> dec.confidence,
     response        |-> DictGet(response, "response", ""),
     success         |-> DictGet(response, "success", FALSE),
     selected_store  |-> DictGet(response, "selected_store", None),
     metadata        |-> [processing_path |-> path,
                          route_metadata  |-> [reasoning |-> dec.reasoning,
                                               patterns_detected |-> dec.patterns],
                          fallback_used   |-> DictGet(response, "fallback_used", FALSE)]]

\* the dictionary process_query returns from its except branch
FailureResult(q, msg) ==
    [query      |-> q,
     response   |-> "I apologize, but I encountered an error processing your request.",
     query_type |-> <<>>,
     confidence |-> 0,
     success    |-> FALSE,
     metadata   |-> [error |-> msg]]

-----------------------------------------------------------------------------
(* Inputs of the routing specification *)

\* fragments queries are built from: cue words of every pattern category, a cue
\* in upper case, cue words hidden inside other words, and words with no cue
Vocabulary ==
    { <<"l","a","t","e","s","t">>,
      <<"T","o","d","a","y">>,
      <<"k","n","o","w">>,
      <<"n","e","w","e","s","t">>,
      <<"2","+","2">>,
      <<"w","h","a","t"," ","i","s">>,
      <<"d","o","c","s">>,
      <<"a"," ","b"," ","c"," ","d">> }

JoinWords(p, f) == IF p = <<>> THEN f ELSE p \o <<" ">> \o f

RECURSIVE QueriesOf(_)
QueriesOf(n) ==
    IF n = 0 THEN {<<>>}
    ELSE LET prev == QueriesOf(n - 1)
         IN prev \cup {JoinWords(p, f) : p \in prev, f \in Vocabulary}

Queries == QueriesOf(MaxFragments) \cup {NoneQuery}

\* query_type fields a reply may carry
ReplyTypes ==
    { Absent, NotString,
      Str(<<"R","E","T","R","I","E","V","A","L">>),
      Str(<<"D","I","R","E","C","T">>),
      Str(<<"C","A","L","C","U","L","A","T","I","O","N">>),
      Str(<<"W","E","B","_","S","E","A","R","C","H">>),
      Str(<<"C","L","A","R","I","F","I","C","A","T","I","O","N">>),
      Str(<<"C","l","a","r","i","f","i","c","a","t","i","o","n">>),
      Str(<<"S","U","M","M","A","R","Y">>) }

ReplyConfidences == { Absent, NotNumber, Num(70), Num(150), Num(-10) }

\* the optional fields of a reply, present or absent
ReplyRest ==
    { [should_retrieve |-> Absent, retrieval_query |-> Absent, reasoning |-> Absent],
      [should_retrieve |-> Bool(TRUE), retrieval_query |-> Str("expanded query"),
       reasoning |-> Str("model reasoning")],
      [should_retrieve |-> Bool(FALSE), retrieval_query |-> Absent,
       reasoning |-> Str("model reasoning")] }

\* outcomes of llm.invoke: an exception, text that is not JSON, JSON that is not
\* an object, and JSON objects with each field present or absent
Replies ==
    { [kind |-> "raise", msg |-> "LLM failure"],
      [kind |-> "text"],
      [kind |-> "json_not_object"] }
    \cup
    { [kind            |-> "object",
       query_type      |-> t,
       confidence      |-> c,
       should_retrieve |-> o.should_retrieve,
       retrieval_query |-> o.retrieval_query,
       reasoning       |-> o.reasoning] :
      t \in ReplyTypes, c \in ReplyConfidences, o \in ReplyRest }

NoDecision == [tag |-> "no_decision"]

-----------------------------------------------------------------------------
(* Inputs of the pipeline specifications *)

\* queries handed to process_query: one per processing path and pattern
\* category, and a query that is not a string
PipelineQueries ==
    { <<"h","e","l","l","o">>,
      <<"w","h","a","t"," ","i","s"," ","R","A","G","?">>,
      <<"l","a","t","e","s","t"," ","A","I">>,
      <<"2","+","2"," ","a","n","d"," ","3"," ","o","r"," ","4","?">>,
      <<"d","o","c","s">>,
      <<"2","/","0">>,
      <<"a","+","b">>,
      NoneQuery }

\* what the language model answers to the routing prompt
PipelineReplies ==
    { [kind |-> "raise", msg |-> "LLM failure"],
      [kind |-> "text"] }
    \cup
    { [kind            |-> "object",
       query_type      |-> t,
       confidence      |-> Num(70),
       should_retrieve |-> Bool(TRUE),
       retrieval_query |-> Str("expanded query"),
       reasoning       |-> Str("model reasoning")] :
      t \in { Str(<<"R","E","T","R","I","E","V","A","L">>),
              Str(<<"D","I","R","E","C","T">>),
              Str(<<"C","A","L","C","U","L","A","T","I","O","N">>),
              Str(<<"W","E","B","_","S","E","A","R","C","H">>),
              Str(<<"C","L","A","R","I","F","I","C","A","T","I","O","N">>) } }

\* the inputs of the concurrent calls: a string and a non-string query, one reply
ConcurrentQueries ==
    { <<"w","h","a","t"," ","i","s"," ","R","A","G","?">>,
      NoneQuery }

ConcurrentReplies ==
    { [kind            |-> "object",
       query_type      |-> Str(<<"D","I","R","E","C","T">>),
       confidence      |-> Num(70),
       should_retrieve |-> Bool(FALSE),
       retrieval_query |-> Absent,
       reasoning       |-> Absent] }

-----------------------------------------------------------------------------
(* RAGPipeline.process_query, step by step.  Each += on a counter of the     *)
(* shared metrics is a read followed by a write; list.append is one step.    *)

Max(a, b) == IF a > b THEN a ELSE b

\* the calls of a specification: slot t is the t-th process_query call
Slots == 1..Max(NumCalls, NumThreads)

NoResponse == [tag |-> "no_response"]

NoResult == [tag |-> "no_result"]

\* the outcomes of a dispatch that has not run: nothing failed
NoEnv ==
    [search |-> "results", retrieval |-> "results",
     llm |-> [kind |-> "ok"], llm_fallback |-> [kind |-> "ok"]]

\* the local variables of a call that has not begun
NoAnalysis == [tag |-> "no_analysis"]

IdleCall ==
    [query     |-> <<>>,
     entry     |-> "process_query",  \* the method called: process_query or process
     template  |-> <<>>,        \* processed_result.suggested_template
     site      |-> "none",      \* who called the Monitor: "process" or "pipeline"
     reg       |-> 0,           \* the value read by the += in progress
     path      |-> "none",      \* processed_result.processing_path
     analysis  |-> NoAnalysis,  \* what analyzer.analyze returned
     err       |-> NoErr,       \* str(e) of the exception being handled
     decision  |-> NoDecision,  \* route_response
     response  |-> NoResponse,
     result    |-> NoResult,    \* what process_query returned
     llm_error |-> NoErr,       \* history: the message of a language-model exception
     env       |-> NoEnv,       \* history: the outcomes of the dispatch's external calls
     calls     |-> {},          \* history: the external components the dispatch called
     steps     |-> <<>>,        \* history: the states the query went through
     handlers  |-> <<>>,        \* history: the handlers run, in order
     llm_calls |-> 0,           \* history: how many times llm.invoke was called
     before    |-> InitialMetrics]  \* history: the metrics when the call began

TypeErrorMsg == "'NoneType' object is not subscriptable"

AttributeErrorMsg == "'QueryMonitor' object has no attribute 'current_start'"

\* query[:100] raises when the query is not a string
Subscriptable(q) == q # NoneQuery

\* get_template and evaluate before they are called
IdleTemplate == [path |-> "standard", analysis |-> Analyze(NoneQuery), result |-> <<>>]

IdleCalculation == [expression |-> <<>>, result |-> NotReturned]

\* the tools when no call of theirs is followed
ToolsIdle ==
    /\ template = IdleTemplate
    /\ calculation = IdleCalculation
    /\ search = IdleSearch
    /\ lookup = IdleLookup

\* the router when no call of route is followed on its own
RouterIdle ==
    /\ query = <<>>
    /\ reply = [kind |-> "text"]
    /\ decision = NoDecision

PipeInit ==
    /\ metrics = InitialMetrics
    /\ current_start = Unset
    /\ vector_store_manager \in {"none", "present"}
    /\ pc = [t \in Slots |-> "idle"]
    /\ call = [t \in Slots |-> IdleCall]
    /\ RouterIdle
    /\ ToolsIdle

\* process_query is called with a query from qs
Begin(t, qs) ==
    /\ pc[t] = "idle"
    /\ \E q \in qs :
         call' = [call EXCEPT ![t] = [IdleCall EXCEPT !.query = q, !.before = metrics,
                                                       !.steps = <<"received">>]]
    /\ pc' = [pc EXCEPT ![t] = "sp_set"]
    /\ UNCHANGED <<metrics, current_start, vector_store_manager>>
    /\ UNCHANGED <<routeVars, toolVars>>

\* start_processing: self.current_start = datetime.now()
StartSet(t) ==
    /\ pc[t] = "sp_set"
    /\ current_start' = t
    /\ pc' = [pc EXCEPT ![t] = "sp_read"]
    /\ UNCHANGED <<metrics, vector_store_manager, call>>
    /\ UNCHANGED <<routeVars, toolVars>>

\* start_processing: total_queries += 1, the read
StartRead(t) ==
    /\ pc[t] = "sp_read"
    /\ call' = [call EXCEPT ![t].reg = metrics.total_queries]
    /\ pc' = [pc EXCEPT ![t] = "sp_write"]
    /\ UNCHANGED <<metrics, current_start, vector_store_manager>>
    /\ UNCHANGED <<routeVars, toolVars>>

\* start_processing: total_queries += 1, the write
StartWrite(t) ==
    /\ pc[t] = "sp_write"
    /\ metrics' = [metrics EXCEPT !.total_queries = call[t].reg + 1]
    /\ pc' = [pc EXCEPT ![t] = "analyze"]
    /\ UNCHANGED <<current_start, vector_store_manager, call>>
    /\ UNCHANGED <<routeVars, toolVars>>

\* QueryProcessor.process: analyze, _determine_path and the ProcessingResult
AnalyzeStep(t) ==
    /\ pc[t] = "analyze"
    /\ LET analysis == Analyze(call[t].query)
           path     == DeterminePath(analysis)
       IN call' = [call EXCEPT ![t].path = path,
                               ![t].analysis = analysis,
                               ![t].template = GetTemplate(path, analysis),
                               ![t].site = "process"]
    /\ pc' = [pc EXCEPT ![t] = "rs_read"]
    /\ UNCHANGED <<metrics, current_start, vector_store_manager>>
    /\ UNCHANGED <<routeVars, toolVars>>

\* record_success: successful_queries += 1, the read
SuccessRead(t) ==
    /\ pc[t] = "rs_read"
    /\ call' = [call EXCEPT ![t].reg = metrics.successful_queries]
    /\ pc' = [pc EXCEPT ![t] = "rs_write"]
    /\ UNCHANGED <<metrics, current_start, vector_store_manager>>
    /\ UNCHANGED <<routeVars, toolVars>>

\* record_success: successful_queries += 1, the write
SuccessWrite(t) ==
    /\ pc[t] = "rs_write"
    /\ metrics' = [metrics EXCEPT !.successful_queries = call[t].reg + 1]
    /\ pc' = [pc EXCEPT ![t] = "rs_time"]
    /\ UNCHANGED <<current_start, vector_store_manager, call>>
    /\ UNCHANGED <<routeVars, toolVars>>

\* record_success: the processing time since current_start is appended; reading
\* current_start raises AttributeError when no start_processing has run
SuccessTime(t) ==
    /\ pc[t] = "rs_time"
    /\ IF current_start = Unset
       THEN /\ call' = [call EXCEPT ![t].err = AttributeErrorMsg]
            /\ pc' = [pc EXCEPT ![t] = "rf_read"]
            /\ UNCHANGED metrics
       ELSE /\ metrics' = [metrics EXCEPT !.processing_times =
                              Append(@, [by |-> t, since |-> current_start])]
            /\ pc' = [pc EXCEPT ![t] = "rs_path_read"]
            /\ UNCHANGED call
    /\ UNCHANGED <<current_start, vector_store_manager>>
    /\ UNCHANGED <<routeVars, toolVars>>

\* record_success: path_usage.get(path, 0), the read
SuccessPathRead(t) ==
    /\ pc[t] = "rs_path_read"
    /\ call' = [call EXCEPT ![t].reg = DictGet(metrics.path_usage, call[t].path, 0)]
    /\ pc' = [pc EXCEPT ![t] = "rs_path_write"]
    /\ UNCHANGED <<metrics, current_start, vector_store_manager>>
    /\ UNCHANGED <<routeVars, toolVars>>

\* record_success: path_usage[path] = ... + 1, the write
SuccessPathWrite(t) ==
    /\ pc[t] = "rs_path_write"
    /\ metrics' = [metrics EXCEPT !.path_usage =
                      DictPut(@, call[t].path, call[t].reg + 1)]
    /\ pc' = [pc EXCEPT ![t] = "rs_log"]
    /\ UNCHANGED <<current_start, vector_store_manager, call>>
    /\ UNCHANGED <<routeVars, toolVars>>

\* record_success: the log line formats query[:100]; then control returns to
\* the caller: process goes on to the router, process_query to its return
SuccessLog(t) ==
    /\ pc[t] = "rs_log"
    /\ IF ~Subscriptable(call[t].query)
       THEN /\ call' = [call EXCEPT ![t].err = TypeErrorMsg]
            /\ pc' = [pc EXCEPT ![t] = "rf_read"]
       ELSE /\ pc' = [pc EXCEPT ![t] =
                         IF call[t].site = "pipeline" THEN "return"
                         ELSE IF call[t].entry = "process" THEN "done"
                         ELSE "route"]
            /\ call' = IF call[t].site = "pipeline" THEN call
                       ELSE [call EXCEPT ![t].steps = Append(@, "processed")]
    /\ UNCHANGED <<metrics, current_start, vector_store_manager>>
    /\ UNCHANGED <<routeVars, toolVars>>

\* record_failure: failed_queries += 1, the read
FailureRead(t) ==
    /\ pc[t] = "rf_read"
    /\ call' = [call EXCEPT ![t].reg = metrics.failed_queries]
    /\ pc' = [pc EXCEPT ![t] = "rf_write"]
    /\ UNCHANGED <<metrics, current_start, vector_store_manager>>
    /\ UNCHANGED <<routeVars, toolVars>>

\* record_failure: failed_queries += 1, the write
FailureWrite(t) ==
    /\ pc[t] = "rf_write"
    /\ metrics' = [metrics EXCEPT !.failed_queries = call[t].reg + 1]
    /\ pc' = [pc EXCEPT ![t] = "rf_append"]
    /\ UNCHANGED <<current_start, vector_store_manager, call>>
    /\ UNCHANGED <<routeVars, toolVars>>

\* record_failure: errors.append({query, error, timestamp})
FailureAppend(t) ==
    /\ pc[t] = "rf_append"
    /\ metrics' = [metrics EXCEPT !.errors =
                      Append(@, [query |-> call[t].query, error |-> call[t].err])]
    /\ pc' = [pc EXCEPT ![t] = "rf_log"]
    /\ UNCHANGED <<current_start, vector_store_manager, call>>
    /\ UNCHANGED <<routeVars, toolVars>>

\* record_failure: the log line formats query[:100].  In process's except
\* branch the exception (the new one, or the re-raised one) reaches
\* process_query's except branch, which calls record_failure again; in
\* process_query's except branch a new exception leaves process_query, and
\* otherwise the failure dictionary is returned
FailureLog(t) ==
    /\ pc[t] = "rf_log"
    /\ IF call[t].site = "process" /\ call[t].entry = "process"
       THEN /\ call' = [call EXCEPT ![t].err = IF Subscriptable(call[t].query)
                                               THEN call[t].err ELSE TypeErrorMsg,
                                    ![t].steps = Append(@, "failed")]
            /\ pc' = [pc EXCEPT ![t] = "raised"]
       ELSE IF call[t].site = "process"
       THEN /\ call' = [call EXCEPT ![t].site = "pipeline",
                                    ![t].err = IF Subscriptable(call[t].query)
                                               THEN call[t].err ELSE TypeErrorMsg]
            /\ pc' = [pc EXCEPT ![t] = "rf_read"]
       ELSE IF ~Subscriptable(call[t].query)
       THEN /\ call' = [call EXCEPT ![t].err = TypeErrorMsg,
                                    ![t].steps = Append(@, "failed")]
            /\ pc' = [pc EXCEPT ![t] = "raised"]
       ELSE /\ call' = [call EXCEPT ![t].result =
                           FailureResult(call[t].query, call[t].err),
                                    ![t].steps = Append(@, "failed")]
            /\ pc' = [pc EXCEPT ![t] = "done"]
    /\ UNCHANGED <<metrics, current_start, vector_store_manager>>
    /\ UNCHANGED <<routeVars, toolVars>>

\* self.router.route(processed_query), the language model answering from rs
RouteStep(t, rs) ==
    /\ pc[t] = "route"
    /\ \E r \in rs :
         call' = [call EXCEPT ![t].decision = Route(call[t].query, r),
                              ![t].steps = Append(@, "routed"),
                              ![t].llm_calls = @ + 1,
                              ![t].llm_error = IF r.kind = "raise" THEN r.msg ELSE @]
    /\ pc' = [pc EXCEPT ![t] = "dispatch"]
    /\ UNCHANGED <<metrics, current_start, vector_store_manager>>
    /\ UNCHANGED <<routeVars, toolVars>>

\* the handler of the routed query type runs and `response` is built
DispatchStep(t) ==
    /\ pc[t] = "dispatch"
    /\ \E e \in EnvsFor(call[t].decision.query_type, vector_store_manager) :
         LET qt  == call[t].decision.query_type
             msg == DispatchLLMError(qt, vector_store_manager, e)
         IN call' = [call EXCEPT ![t].response = Dispatch(call[t].query, qt,
                                                          vector_store_manager, e),
                                 ![t].env = e,
                                 ![t].steps = Append(@, "dispatched"),
                                 ![t].handlers = DispatchHandlers(qt, vector_store_manager, e),
                                 ![t].llm_calls = @ + DispatchLLMCalls(qt, vector_store_manager, e),
                                 ![t].calls = DispatchCalls(call[t].query, qt,
                                                            vector_store_manager, e),
                                 ![t].llm_error = IF msg # NoErr THEN msg ELSE @,
                                 ![t].site = "pipeline"]
    /\ pc' = [pc EXCEPT ![t] = "rs_read"]
    /\ UNCHANGED <<metrics, current_start, vector_store_manager>>
    /\ UNCHANGED <<routeVars, toolVars>>

\* process_query returns the result dictionary
ReturnStep(t) ==
    /\ pc[t] = "return"
    /\ call' = [call EXCEPT ![t].result =
                   SuccessResult(call[t].query, call[t].path, call[t].decision,
                                 call[t].response),
                            ![t].steps = Append(@, TerminalState(call[t].response))]
    /\ pc' = [pc EXCEPT ![t] = "done"]
    /\ UNCHANGED <<metrics, current_start, vector_store_manager>>
    /\ UNCHANGED <<routeVars, toolVars>>

Finished(t) == pc[t] \in {"done", "raised"}

-----------------------------------------------------------------------------
(* Calls made one after another *)

\* the next call begins when the one before it has returned or raised
BeginSerial(t) ==
    /\ t <= NumCalls
    /\ \A u \in Slots : u < t => Finished(u)
    /\ Begin(t, PipelineQueries)

Next ==
    \E t \in Slots :
        \/ BeginSerial(t)
        \/ StartSet(t) \/ StartRead(t) \/ StartWrite(t) \/ AnalyzeStep(t)
        \/ SuccessRead(t) \/ SuccessWrite(t) \/ SuccessTime(t)
        \/ SuccessPathRead(t) \/ SuccessPathWrite(t) \/ SuccessLog(t)
        \/ FailureRead(t) \/ FailureWrite(t) \/ FailureAppend(t) \/ FailureLog(t)
        \/ RouteStep(t, PipelineReplies) \/ DispatchStep(t) \/ ReturnStep(t)

Spec == PipeInit /\ [][Next]_vars

-----------------------------------------------------------------------------
(* Calls made by concurrent threads *)

BeginConcurrent(t) ==
    /\ t <= NumThreads
    /\ Begin(t, ConcurrentQueries)

ConcurrentNext ==
    \E t \in Slots :
        \/ BeginConcurrent(t)
        \/ StartSet(t) \/ StartRead(t) \/ StartWrite(t) \/ AnalyzeStep(t)
        \/ SuccessRead(t) \/ SuccessWrite(t) \/ SuccessTime(t)
        \/ SuccessPathRead(t) \/ SuccessPathWrite(t) \/ SuccessLog(t)
        \/ FailureRead(t) \/ FailureWrite(t) \/ FailureAppend(t) \/ FailureLog(t)
        \/ RouteStep(t, ConcurrentReplies) \/ DispatchStep(t) \/ ReturnStep(t)

SpecConcurrent == PipeInit /\ [][ConcurrentNext]_vars

-----------------------------------------------------------------------------
(* One process_query call on a fresh pipeline *)

\* the queries of the single call: those of the serial calls and one that is
\* an expression of three operands
DispatchQueries == PipelineQueries \cup { <<"2","+","3","*","4">> }

BeginOnce(t) ==
    /\ t = 1
    /\ Begin(t, DispatchQueries)

DispatchNext ==
    \E t \in Slots :
        \/ BeginOnce(t)
        \/ StartSet(t) \/ StartRead(t) \/ StartWrite(t) \/ AnalyzeStep(t)
        \/ SuccessRead(t) \/ SuccessWrite(t) \/ SuccessTime(t)
        \/ SuccessPathRead(t) \/ SuccessPathWrite(t) \/ SuccessLog(t)
        \/ FailureRead(t) \/ FailureWrite(t) \/ FailureAppend(t) \/ FailureLog(t)
        \/ RouteStep(t, PipelineReplies) \/ DispatchStep(t) \/ ReturnStep(t)

SpecDispatch == PipeInit /\ [][DispatchNext]_vars

-----------------------------------------------------------------------------
(* QueryProcessor.process called directly, one call after another *)

RECURSIVE Repeat(_, _)
Repeat(s, n) == IF n = 0 THEN <<>> ELSE s \o Repeat(s, n - 1)

\* a query of more than 100 characters with entities, "and" and "or", and no
\* question mark
LongQuery == Repeat(<<"N","A","S","A"," ","a","n","d"," ","o","r"," ">>, 9)

ProcessQueries ==
    { <<"h","e","l","l","o">>,
      <<"W","h","a","t"," ","i","s"," ","R","A","G","?">>,
      <<"T","e","l","l"," ","m","e"," ","a","b","o","u","t"," ","R","A","G">>,
      <<"R","A","G"," ","a","n","d"," ","C","P","U"," ","o","r"," ","G","P","U","?">>,
      <<"c","a","t","s"," ","a","n","d"," ","d","o","g","s","?">>,
      LongQuery,
      <<>>,
      NoneQuery }

\* process(query) is called
BeginProcess(t) ==
    /\ t <= NumCalls
    /\ \A u \in Slots : u < t => Finished(u)
    /\ pc[t] = "idle"
    /\ \E q \in ProcessQueries :
         call' = [call EXCEPT ![t] = [IdleCall EXCEPT !.query = q, !.entry = "process",
                                                      !.before = metrics]]
    /\ pc' = [pc EXCEPT ![t] = "sp_set"]
    /\ UNCHANGED <<metrics, current_start, vector_store_manager>>
    /\ UNCHANGED <<routeVars, toolVars>>

ProcessNext ==
    \E t \in Slots :
        \/ BeginProcess(t)
        \/ StartSet(t) \/ StartRead(t) \/ StartWrite(t) \/ AnalyzeStep(t)
        \/ SuccessRead(t) \/ SuccessWrite(t) \/ SuccessTime(t)
        \/ SuccessPathRead(t) \/ SuccessPathWrite(t) \/ SuccessLog(t)
        \/ FailureRead(t) \/ FailureWrite(t) \/ FailureAppend(t) \/ FailureLog(t)

SpecProcess == PipeInit /\ [][ProcessNext]_vars

-----------------------------------------------------------------------------
(* One call of ResponseTemplate.get_template *)

TemplatePaths == TemplateNames \cup {"unknown"}

\* the analyses get_template is called with: complexity is a number of
\* quarters, in hundredths
Analyses ==
    [complexity : {(k * 100) \div ComplexityFactors : k \in 0..ComplexityFactors},
     has_entities : BOOLEAN,
     has_question_mark : BOOLEAN]

TemplateInit ==
    /\ template \in [path : TemplatePaths, analysis : Analyses, result : {<<>>}]
    /\ calculation = IdleCalculation
    /\ search = IdleSearch
    /\ lookup = IdleLookup
    /\ RouterIdle
    /\ metrics = InitialMetrics
    /\ current_start = Unset
    /\ vector_store_manager = "none"
    /\ pc = [t \in Slots |-> "idle"]
    /\ call = [t \in Slots |-> IdleCall]

TemplateCall ==
    /\ template.result = <<>>
    /\ template' = [template EXCEPT !.result = GetTemplate(template.path, template.analysis)]
    /\ UNCHANGED <<routeVars, pipeVars, calculation, search, lookup>>

TemplateNext == TemplateCall

SpecTemplate == TemplateInit /\ [][TemplateNext]_vars

-----------------------------------------------------------------------------
(* One call of Calculator.evaluate *)

\* the characters expressions are built from: digits, the operators of the
\* Calculator, parentheses and the blank
ExprAlphabet == {"0", "2", "3", "+", "-", "*", "/", "(", ")", " "}

\* expressions with a name, a call, another operator, a keyword, and the
\* precedence cases longer than MaxExprLen
ExtraExpressions ==
    { <<"2","+","3","*","4">>,
      <<"-","2","*","*","2">>,
      <<"(","2","+","3",")","*","4">>,
      <<"2","*","*","3","*","*","2">>,
      <<"2"," ","+"," ","3">>,
      <<"2"," ","*"," ","*"," ","3">>,
      <<"2","%","3">>,
      <<"a">>,
      <<"a","(","2",")">>,
      <<"2","a">>,
      <<"i","m","p","o","r","t"," ","o","s">>,
      NoneQuery }

Expressions == SeqsUpTo(ExprAlphabet, MaxExprLen) \cup ExtraExpressions

CalculatorInit ==
    /\ calculation \in [expression : Expressions, result : {NotReturned}]
    /\ template = IdleTemplate
    /\ search = IdleSearch
    /\ lookup = IdleLookup
    /\ RouterIdle
    /\ metrics = InitialMetrics
    /\ current_start = Unset
    /\ vector_store_manager = "none"
    /\ pc = [t \in Slots |-> "idle"]
    /\ call = [t \in Slots |-> IdleCall]

EvaluateCall ==
    /\ calculation.result = NotReturned
    /\ calculation' = [calculation EXCEPT !.result = Evaluate(calculation.expression)]
    /\ UNCHANGED <<routeVars, pipeVars, template, search, lookup>>

CalculatorNext == EvaluateCall

SpecCalculator == CalculatorInit /\ [][CalculatorNext]_vars

-----------------------------------------------------------------------------
(* One call of WebSearchTool.search *)

SearchInit ==
    /\ search = IdleSearch
    /\ template = IdleTemplate
    /\ calculation = IdleCalculation
    /\ lookup = IdleLookup
    /\ RouterIdle
    /\ metrics = InitialMetrics
    /\ current_start = Unset
    /\ vector_store_manager = "none"
    /\ pc = [t \in Slots |-> "idle"]
    /\ call = [t \in Slots |-> IdleCall]

SearchNext ==
    \/ SearchCall
    \/ PrimaryAttempt
    \/ Backoff
    \/ GoogleNewsFallback
    \/ ValidateAndReturn

SpecSearch == SearchInit /\ [][SearchNext]_vars

\* search runs in one thread and none of its steps blocks for ever: the
\* sources time out and the backoff sleep ends
SpecSearchFair == SpecSearch /\ WF_vars(SearchNext)

-----------------------------------------------------------------------------
(* One call of RAGPipeline._handle_retrieval *)

RetrievalInit ==
    /\ lookup \in [manager : Managers \cup {NoManager}, store_preference : Preferences,
                   outcome : {"results", "empty", "raise"}, returned : {NotReturned}]
    /\ template = IdleTemplate
    /\ calculation = IdleCalculation
    /\ search = IdleSearch
    /\ RouterIdle
    /\ metrics = InitialMetrics
    /\ current_start = Unset
    /\ vector_store_manager = "none"
    /\ pc = [t \in Slots |-> "idle"]
    /\ call = [t \in Slots |-> IdleCall]

RetrievalCall ==
    /\ lookup.returned = NotReturned
    /\ lookup' = [lookup EXCEPT !.returned =
                     HandleRetrievalIn(lookup.manager, lookup.store_preference,
                                       lookup.outcome)]
    /\ UNCHANGED <<routeVars, pipeVars, template, calculation, search>>

RetrievalNext == RetrievalCall

SpecRetrieval == RetrievalInit /\ [][RetrievalNext]_vars

-----------------------------------------------------------------------------
(* The methods of one QueryMonitor called directly, in any order, each call  *)
(* running to its return or to the exception that ends it                    *)

MonitorInit == PipeInit /\ vector_store_manager = "none"

\* every method begins by adding one to a counter of its own
MonitorCalls ==
    metrics.total_queries + metrics.successful_queries + metrics.failed_queries

MonitorQueries == { <<"h","e","l","l","o">>, NoneQuery }

\* the result given to record_success: one with a processing_path, or an
\* object without that attribute
MonitorResults == { [processing_path |-> p] : p \in {"standard", "question"} } \cup {None}

\* start_processing(query)
StartProcessing ==
    /\ MonitorCalls < MaxMonitorCalls
    /\ current_start' = 1
    /\ metrics' = [metrics EXCEPT !.total_queries = @ + 1]
    /\ UNCHANGED <<vector_store_manager, pc, call>>
    /\ UNCHANGED <<routeVars, toolVars>>

\* record_success(query, result): the counter, then the processing time
\* (AttributeError without a current_start), then the path count
\* (AttributeError without a processing_path), then the log line (TypeError
\* for a query that cannot be sliced); an exception leaves what was done
RecordSuccess ==
    /\ MonitorCalls < MaxMonitorCalls
    /\ \E q \in MonitorQueries, result \in MonitorResults :
         LET counted == [metrics EXCEPT !.successful_queries = @ + 1]
             timed   == [counted EXCEPT !.processing_times =
                            Append(@, [by |-> 1, since |-> current_start])]
         IN metrics' =
              IF current_start = Unset THEN counted
              ELSE IF result = None THEN timed
              ELSE [timed EXCEPT !.path_usage =
                      DictPut(@, result.processing_path,
                              DictGet(@, result.processing_path, 0) + 1)]
    /\ UNCHANGED <<current_start, vector_store_manager, pc, call>>
    /\ UNCHANGED <<routeVars, toolVars>>

\* record_failure(query, error): the counter, the error entry, then the log
\* line (TypeError for a query that cannot be sliced)
RecordFailure ==
    /\ MonitorCalls < MaxMonitorCalls
    /\ \E q \in MonitorQueries :
         metrics' = [metrics EXCEPT !.failed_queries = @ + 1,
                                    !.errors = Append(@, [query |-> q, error |-> "error"])]
    /\ UNCHANGED <<current_start, vector_store_manager, pc, call>>
    /\ UNCHANGED <<routeVars, toolVars>>

MonitorNext == StartProcessing \/ RecordSuccess \/ RecordFailure

SpecMonitor == MonitorInit /\ [][MonitorNext]_vars

-----------------------------------------------------------------------------
(* The routing specification: one call of RouterChain.route *)

RouteInit ==
    /\ query \in Queries
    /\ reply \in Replies
    /\ decision = NoDecision
    /\ metrics = InitialMetrics
    /\ current_start = Unset
    /\ vector_store_manager = "none"
    /\ pc = [t \in Slots |-> "idle"]
    /\ call = [t \in Slots |-> IdleCall]
    /\ ToolsIdle

\* route(query) runs to its return
RouteCall ==
    /\ decision = NoDecision
    /\ decision' = Route(query, reply)
    /\ UNCHANGED <<query, reply>>
    /\ UNCHANGED <<pipeVars, toolVars>>

RouteNext == RouteCall

SpecRoute == RouteInit /\ [][RouteNext]_vars

-----------------------------------------------------------------------------
(* Properties of RouterChain.route, checked under SpecRoute *)

\* route has returned
Routed == decision # NoDecision

\* the language model returned a reply instead of raising
Returned == reply.kind # "raise"

StringQuery == query # NoneQuery

\* the reply cannot be parsed as the structured payload
Unparseable ==
    \/ reply.kind \in {"text", "json_not_object"}
    \/ /\ reply.kind = "object"
       /\ \/ reply.query_type.tag = "not_a_string"
          \/ reply.confidence.tag = "not_a_number"

\* the decision is the override of one pattern category
Overridden(type, confidence, reasoning) ==
    /\ decision.query_type = type
    /\ decision.confidence = confidence
    /\ decision.reasoning = Str(reasoning)

\* the decision carries the candidate's fields unmodified
CarriesCandidate(cand) ==
    /\ QueryType[decision.query_type] = cand.query_type
    /\ decision.confidence = cand.confidence
    /\ decision.should_retrieve = cand.should_retrieve
    /\ decision.retrieval_query = Str(cand.retrieval_query)
    /\ decision.reasoning = Str(cand.reasoning)

\* the decision is the fallback of route's except branch
IsFallback ==
    /\ decision.query_type = "RETRIEVAL"
    /\ decision.confidence = 50
    /\ decision.should_retrieve = TRUE

\* the highest-precedence matching category decides
PrecedenceHolds(p) ==
    /\ p.is_web_search
         => Overridden("WEB_SEARCH", 90, "Query requires current information")
    /\ ~p.is_web_search /\ p.is_calculation
         => Overridden("CALCULATION", 95, "Query requires mathematical computation")
    /\ ~p.is_web_search /\ ~p.is_calculation /\ p.is_direct
         => Overridden("DIRECT", 80, "Simple direct question")
    /\ ~p.is_web_search /\ ~p.is_calculation /\ ~p.is_direct /\ p.is_retrieval
         => Overridden("RETRIEVAL", 90, "Query requires document search")

NoCategory(p) ==
    ~p.is_web_search /\ ~p.is_calculation /\ ~p.is_direct /\ ~p.is_retrieval

ClaimedRecencyWords ==
    { <<"l","a","t","e","s","t">>, <<"r","e","c","e","n","t">>,
      <<"c","u","r","r","e","n","t">>, <<"n","o","w">>, <<"t","o","d","a","y">>,
      <<"n","e","w","s">>, <<"u","p","d","a","t","e">>,
      <<"t","h","i","s"," ","w","e","e","k">>, <<"t","h","i","s"," ","m","o","n","t","h">> }

\* the query contains one of the words ws, in any letter case
ContainsOneOf(q, ws) == \E w \in ws : Contains(ToLower(q), w)

HasOperator(q) == \E c \in {"+", "-", "*", "/", "%"} : Contains(q, <<c>>)

IsDefaultDecision ==
    /\ decision.query_type = "RETRIEVAL"
    /\ decision.confidence = 50
    /\ decision.should_retrieve = TRUE
    /\ decision.retrieval_query = Str("")
    /\ decision.reasoning = Str("Failed to parse response.")

\* C8 as stated: when the reply cannot be parsed as the structured payload,
\* route returns exactly the default decision: RETRIEVAL, 0.5, should_retrieve
\* true, retrieval_query "" and reasoning "Failed to parse response.".
C8_Original ==
    Routed /\ StringQuery /\ Unparseable => IsDefaultDecision

\* C8 as amended: when the reply cannot be parsed and the query matches no
\* pattern category, route returns exactly the default decision; when the query
\* matches a category, that category's override replaces query_type,
\* confidence, should_retrieve and reasoning of the default and only
\* retrieval_query "" is left of it.
C8_DefaultOnParseFailure ==
    Routed /\ StringQuery /\ Unparseable =>
      LET p == CheckQueryPatterns(query)
      IN /\ NoCategory(p) => IsDefaultDecision
         /\ PrecedenceHolds(p)
         /\ decision.retrieval_query = Str("")

\* a reply that is not JSON, for a query without cues, gave the default
C8_Witness ==
    /\ Routed
    /\ query = <<"a"," ","b"," ","c"," ","d">>
    /\ reply.kind = "text"
    /\ IsDefaultDecision

\* C9: route never raises to its caller; when the language-model invocation or
\* any later step of routing throws, it returns RETRIEVAL with confidence 0.5
\* and should_retrieve true, whatever patterns the query matches.
C9_RouteNeverRaises ==
    Routed =>
      /\ decision.tag = "response"
      /\ (reply.kind = "raise" \/ RouteTry(query, reply).tag = "raised") => IsFallback

\* the language model raised for a query that matches the web-search and
\* calculation categories, and route returned the fallback
C9_Witness ==
    /\ Routed
    /\ reply.kind = "raise"
    /\ query = <<"l","a","t","e","s","t"," ","2","+","2">>
    /\ decision.tag = "response"
    /\ decision.query_type = "RETRIEVAL"
    /\ decision.reasoning = [tag |-> "error_in_routing", val |-> "LLM failure"]

\* C10: for every query and every language-model outcome the decision's
\* query_type is one of RETRIEVAL, DIRECT, CALCULATION, WEB_SEARCH,
\* CLARIFICATION.
C10_QueryTypeIsEnumerated ==
    Routed =>
      /\ decision.tag = "response"
      /\ decision.query_type \in
           {"RETRIEVAL", "DIRECT", "CALCULATION", "WEB_SEARCH", "CLARIFICATION"}

\* a reply naming a type that is not one of the five, for a query without
\* cues, was routed to RETRIEVAL
C10_Witness ==
    /\ Routed
    /\ query = <<"a"," ","b"," ","c"," ","d"," ","a"," ","b"," ","c"," ","d">>
    /\ reply.kind = "object"
    /\ reply.query_type = Str(<<"S","U","M","M","A","R","Y">>)
    /\ decision.query_type = "RETRIEVAL"

-----------------------------------------------------------------------------
(* Properties of process_query and the Monitor, checked under Spec and       *)
(* SpecConcurrent                                                            *)

\* no call is in progress and every call made has returned
Quiescent == \A t \in Slots : pc[t] \in {"idle", "done"}

\* t is the call that returned last: no later call has begun
LastReturned(t) == pc[t] = "done" /\ \A u \in Slots : u > t => pc[u] = "idle"

\* what call t added to the outcome counters
SuccessesOf(t) == metrics.successful_queries - call[t].before.successful_queries

FailuresOf(t) == metrics.failed_queries - call[t].before.failed_queries

\* C1: every call to process_query, on whatever path, records exactly one
\* outcome in the Monitor: successful_queries + failed_queries grows by exactly
\* 1 per call, as a success or a failure, never both and never neither.
C1_OneOutcomePerCall ==
    \A t \in Slots :
        LastReturned(t) =>
          \/ SuccessesOf(t) = 1 /\ FailuresOf(t) = 0
          \/ SuccessesOf(t) = 0 /\ FailuresOf(t) = 1

\* C2: if a language-model call throws while a query is being answered,
\* process_query returns success=false with the exception message, and the
\* query is recorded in the Monitor as a failure (failed_queries incremented,
\* an error-log entry appended) and not as a success.
C2_LLMFailureIsRecorded ==
    \A t \in Slots :
        LastReturned(t) /\ call[t].llm_error # NoErr =>
          /\ call[t].result.success = FALSE
          /\ DictGet(call[t].result.metadata, "error", NoErr) = call[t].llm_error
          /\ FailuresOf(t) = 1
          /\ Len(metrics.errors) = Len(call[t].before.errors) + 1
          /\ SuccessesOf(t) = 0

\* C3: when N successes and M failures have been recorded, get_metrics reports
\* total_queries = N + M and success_rate = N / (N + M), and success_rate = 0
\* when N + M = 0.
C3_TotalIsSuccessesPlusFailures ==
    Quiescent =>
      LET m == GetMetrics(metrics)
          N == m.successful_queries
          M == m.failed_queries
      IN /\ m.total_queries = N + M
         /\ N + M = 0 => m.success_rate.num = 0
         /\ N + M > 0 => m.success_rate.num * (N + M) = N * m.success_rate.den

\* the calls that ran
Callers == {t \in Slots : pc[t] # "idle"}

RECURSIVE SumOver(_, _)
SumOver(f, S) ==
    IF S = {} THEN 0
    ELSE LET x == CHOOSE y \in S : TRUE IN f[x] + SumOver(f, S \ {x})

\* what one call with query q adds to the counters when it runs alone: the
\* successes and failures it records and the path it counts
SerialSuccesses(q) == IF Subscriptable(q) THEN 2 ELSE 1

SerialFailures(q) == IF Subscriptable(q) THEN 0 ELSE 2

SerialPath(q) == DeterminePath(Analyze(q))

\* C4: when k process_query calls run concurrently on one pipeline, after all
\* of them have returned the metrics equal those of running the same k calls
\* one after another: no increment of total_queries, successful_queries,
\* failed_queries or path_usage is lost and no processing-time sample or
\* error-log entry is dropped.
C4_NoLostUpdates ==
    (Callers # {} /\ \A t \in Callers : pc[t] = "done") =>
      LET succ == [t \in Callers |-> SerialSuccesses(call[t].query)]
          fail == [t \in Callers |-> SerialFailures(call[t].query)]
      IN /\ metrics.total_queries = Cardinality(Callers)
         /\ metrics.successful_queries = SumOver(succ, Callers)
         /\ metrics.failed_queries = SumOver(fail, Callers)
         /\ Len(metrics.processing_times) = SumOver(succ, Callers)
         /\ Len(metrics.errors) = SumOver(fail, Callers)
         /\ \A p \in {"advanced", "question", "entity_focused", "standard"} :
              DictGet(metrics.path_usage, p, 0) =
                SumOver([t \in Callers |-> IF SerialPath(call[t].query) = p
                                           THEN succ[t] ELSE 0], Callers)

-----------------------------------------------------------------------------
(* Properties of the dispatch of process_query, checked under Spec *)

\* call t has returned its result dictionary
Done(t) == pc[t] = "done"

RoutedTo(t, query_type) == Done(t) /\ call[t].decision.query_type = query_type

UnsupportedMessage == "Unsupported query type."

\* C11: when the Classifier returns CLARIFICATION, process_query returns a
\* fixed clarification message with success=true and makes no external call
\* after routing.
C11_ClarificationIsAnswered ==
    \A t \in Slots :
        RoutedTo(t, "CLARIFICATION") =>
          /\ call[t].result.success = TRUE
          /\ call[t].result.response # UnsupportedMessage
          /\ call[t].calls = {}

\* the web-search step failed: no valid result, or an exception in the step
WebSearchFailed(e) == e.search \in {"empty", "raise"} \/ e.llm.kind = "raise"

\* C12: when the classified type is WEB_SEARCH and the web-search step fails,
\* process_query runs the DIRECT path as a substitute and returns a result
\* with metadata.fallback_used = true whose success is the DIRECT path's own
\* outcome: true when the direct language-model call succeeds (the response
\* is then the direct answer), false only when it fails.
C12_SearchFailureFallsBackToDirect ==
    \A t \in Slots :
        RoutedTo(t, "WEB_SEARCH") /\ WebSearchFailed(call[t].env) =>
          LET direct_result == HandleDirect(call[t].env.llm_fallback)
          IN /\ call[t].result.metadata.fallback_used = TRUE
             /\ call[t].result.success = direct_result.success
             /\ call[t].result.success = (call[t].env.llm_fallback.kind = "ok")
             /\ (call[t].result.success => call[t].result.response = direct_result.response)
             /\ "language_model" \in call[t].calls

C12_Witness ==
    \E t \in Slots :
        /\ RoutedTo(t, "WEB_SEARCH")
        /\ call[t].env.search = "empty"
        /\ call[t].result.success = TRUE
        /\ call[t].result.metadata.fallback_used = TRUE
        /\ call[t].result.response = LLMText

\* retrieval yielded nothing: no manager, no store, an exception, no results
RetrievalEmpty(e) ==
    vector_store_manager = "none" \/ e.retrieval \in {"no_store", "raise", "empty"}

NoInformationMessage == "Could not find relevant information in the documents."

ResultFields ==
    {"query", "processed_query", "query_type", "confidence", "response",
     "success", "selected_store", "metadata"}

\* C14: every process_query call, on the success paths and on the exception
\* path alike, ends with a result that contains all eight fields, success
\* being a boolean.
C14_ResultHasAllFields ==
    \A t \in Slots :
        Finished(t) =>
          /\ DOMAIN call[t].result = ResultFields
          /\ call[t].result.success \in BOOLEAN

\* the Calculator produced no number for the query of call t
NoNumber(t) ==
    LET calc_result == HandleCalculation(call[t].query)
    IN DictGet(calc_result, "result", None) = None

\* C15: on the CALCULATION path, whenever the Calculator produces no number
\* (no expression extracted, or evaluate returns null), process_query returns
\* success=false.
C15_NoNumberIsFailure ==
    \A t \in Slots :
        RoutedTo(t, "CALCULATION") /\ NoNumber(t) => call[t].result.success = FALSE

-----------------------------------------------------------------------------
(* Properties of QueryProcessor.process, checked under SpecProcess *)

\* process has chosen the path of call t
PathChosen(t) == call[t].entry = "process" /\ call[t].path # "none"

\* C16 as stated: the ordered decision tree, and in particular question for
\* a query with a question mark, entities and complexity <= 0.7, and
\* entity_focused for every query with entities and no question mark.
C16_Original ==
    \A t \in Slots :
        PathChosen(t) =>
          LET a == Analyze(call[t].query)
          IN /\ (a.complexity > 70 => call[t].path = "advanced")
             /\ (a.complexity <= 70 /\ a.has_question_mark /\ a.has_entities
                   => call[t].path = "question")
             /\ (a.has_entities /\ ~a.has_question_mark
                   => call[t].path = "entity_focused")

\* C16: QueryProcessor selects the processing path by the ordered decision
\* tree over the analysis: complexity > 0.7 gives advanced; otherwise a
\* question mark gives question; otherwise non-empty entities give
\* entity_focused; otherwise standard.  A query with entities and no question
\* mark gets entity_focused when its complexity is <= 0.7.
C16_PathByDecisionTree ==
    \A t \in Slots :
        PathChosen(t) =>
          LET a == Analyze(call[t].query)
          IN /\ (a.complexity > 70 => call[t].path = "advanced")
             /\ (a.complexity <= 70 /\ a.has_question_mark
                   => call[t].path = "question")
             /\ (a.complexity <= 70 /\ ~a.has_question_mark /\ a.has_entities
                   => call[t].path = "entity_focused")
             /\ (a.complexity <= 70 /\ ~a.has_question_mark /\ ~a.has_entities
                   => call[t].path = "standard")

C16_Witness ==
    \E t \in Slots :
        /\ pc[t] = "done"
        /\ call[t].entry = "process"
        /\ call[t].query = <<"W","h","a","t"," ","i","s"," ","R","A","G","?">>
        /\ Analyze(call[t].query).has_entities
        /\ call[t].path = "question"

\* t is the call of process that ended last
LastFinished(t) == Finished(t) /\ \A u \in Slots : u > t => pc[u] = "idle"

\* C18: every call to QueryProcessor.process reports to the Monitor as
\* start_processing once followed by exactly one of record_success or
\* record_failure: a call that returns records one success and no failure, a
\* call that raises records one failure and no success.
C18_OneOutcomePerProcessCall ==
    \A t \in Slots :
        LastFinished(t) /\ call[t].entry = "process" =>
          /\ metrics.total_queries = call[t].before.total_queries + 1
          /\ (pc[t] = "done" => SuccessesOf(t) = 1 /\ FailuresOf(t) = 0)
          /\ (pc[t] = "raised" => SuccessesOf(t) = 0 /\ FailuresOf(t) = 1)

-----------------------------------------------------------------------------
(* Properties of ResponseTemplate.get_template, checked under SpecTemplate *)

Sections(tpl) == {tpl[i] : i \in 1..Len(tpl)}

-----------------------------------------------------------------------------
(* Properties of Calculator.evaluate, checked under SpecCalculator.  The     *)
(* arithmetic value of a text is defined here by splitting it at its         *)
(* loosest-binding operator, independently of the parser of the model.       *)

NotExpression == [tag |-> "not_an_expression"]

Undefined == [tag |-> "undefined"]

WithoutBlanks(s) == SelectSeq(s, LAMBDA c : c # " ")

\* how many parentheses are open before position i
Depth(s, i) ==
    Cardinality({k \in 1..(i - 1) : s[k] = "("}) - Cardinality({k \in 1..(i - 1) : s[k] = ")"})

\* s[i] is a binary operator of ops outside every parenthesis: it follows an
\* operand and is not half of ** or //
BinaryAt(s, i, ops) ==
    /\ i > 1 /\ i < Len(s)
    /\ s[i] \in ops
    /\ Depth(s, i) = 0
    /\ IsDigit(s[i - 1]) \/ s[i - 1] = ")"
    /\ s[i + 1] # s[i] \/ s[i] \in {"+", "-"}

PowerAt(s, i) ==
    i > 1 /\ i + 1 < Len(s) /\ s[i] = "*" /\ s[i + 1] = "*" /\ Depth(s, i) = 0

\* s is one parenthesis around all the rest
Parenthesized(s) ==
    /\ Len(s) >= 3 /\ s[1] = "(" /\ s[Len(s)] = ")"
    /\ \A k \in 2..Len(s) : Depth(s, k) >= 1
    /\ Depth(s, Len(s) + 1) = 0

Combine(op, l, r) ==
    IF l = NotExpression \/ r = NotExpression THEN NotExpression
    ELSE IF l = Undefined \/ r = Undefined THEN Undefined
    ELSE LET v == CASE op = "+" -> FloatAdd(l, r) [] op = "-" -> FloatSub(l, r)
                    [] op = "*" -> FloatMul(l, r) [] op = "/" -> FloatDiv(l, r)
                    [] op = "**" -> FloatPow(l, r)
         IN IF v.tag = "raised" THEN Undefined ELSE v

Maximum(S) == CHOOSE x \in S : \A y \in S : y <= x

Minimum(S) == CHOOSE x \in S : \A y \in S : x <= y

\* the value of a text without blanks under the usual precedence: + and -
\* bind loosest and group to the left, then * and /, then unary minus, then
\* ** which groups to the right
RECURSIVE ArithmeticValue(_)
ArithmeticValue(s) ==
    LET sums     == {i \in 1..Len(s) : BinaryAt(s, i, {"+", "-"})}
        products == {i \in 1..Len(s) : BinaryAt(s, i, {"*", "/"})}
        powers   == {i \in 1..Len(s) : PowerAt(s, i)}
        Split(i, width, op) ==
            Combine(op, ArithmeticValue(SubSeq(s, 1, i - 1)),
                        ArithmeticValue(SubSeq(s, i + width, Len(s))))
    IN IF s = <<>> THEN NotExpression
       ELSE IF \A k \in 1..Len(s) : IsDigit(s[k])
       THEN IF ValidDecimal(s) THEN Fraction(DecimalValue(s), 1) ELSE NotExpression
       ELSE IF sums # {} THEN Split(Maximum(sums), 1, s[Maximum(sums)])
       ELSE IF products # {} THEN Split(Maximum(products), 1, s[Maximum(products)])
       ELSE IF s[1] = "-"
       THEN LET v == ArithmeticValue(Tail(s))
            IN IF v \in {NotExpression, Undefined} THEN v ELSE FloatNeg(v)
       ELSE IF powers # {} THEN Split(Minimum(powers), 2, "**")
       ELSE IF Parenthesized(s) THEN ArithmeticValue(SubSeq(s, 2, Len(s) - 1))
       ELSE NotExpression

\* the arithmetic value, or null when there is none
ValueOrNull(s) ==
    LET v == ArithmeticValue(s)
    IN IF v \in {NotExpression, Undefined} THEN None ELSE v

\* a run of blanks stands between two digits or between two stars
BlankInsideToken(s) ==
    \E i \in 1..Len(s) : \E j \in (i + 2)..Len(s) :
        /\ \A k \in (i + 1)..(j - 1) : s[k] = " "
        /\ (IsDigit(s[i]) /\ IsDigit(s[j])) \/ (s[i] = "*" /\ s[j] = "*")

Evaluated == calculation.result # NotReturned

TwoPlusThreeTimesFour == <<"2","+","3","*","4">>

\* C19 as stated: evaluate never raises; it returns the arithmetic value of
\* an expression of the grammar and null for every other input, so a text
\* whose blanks split a number or the ** operator gives null.
C19_Original ==
    Evaluated =>
      LET e == calculation.expression
      IN IF e = NoneQuery \/ BlankInsideToken(e)
         THEN calculation.result = None
         ELSE calculation.result = ValueOrNull(WithoutBlanks(e))

\* C19: evaluate is total and never raises.  It first removes every blank
\* from the input; for the resulting text, when it is built only from numeric
\* literals, + - * / **, unary minus and parentheses, it returns the
\* arithmetic value under the usual precedence ("2+3*4" gives 14.0), and for
\* an empty text, a text outside that grammar or a failing evaluation
\* (division by zero) it returns null.
C19_EvaluateIsArithmetic ==
    Evaluated =>
      LET e == calculation.expression
      IN /\ calculation.result.tag \in {"float", "float_inexact", "none"}
         /\ IF e = NoneQuery THEN calculation.result = None
            ELSE calculation.result = ValueOrNull(WithoutBlanks(e))
         /\ (e = TwoPlusThreeTimesFour => calculation.result = Float(14, 1))

C19_Witness ==
    /\ calculation.expression = TwoPlusThreeTimesFour
    /\ calculation.result = Float(14, 1)

-----------------------------------------------------------------------------
(* Properties of one WebSearchTool.search call, checked under SpecSearchFair. *)

PrimaryQueries == {i \in 1..Len(search.queries) : search.queries[i].source = "duckduckgo"}

SecondaryQueries == {i \in 1..Len(search.queries) : search.queries[i].source = "google_news"}

EmptyPrimaryQueries == {i \in PrimaryQueries : search.queries[i].empty}

\* the source queries and waits made so far are in the order of the contract
SearchOrder ==
    /\ Len(search.queries) <= MaxRetries + 1
    /\ Cardinality(PrimaryQueries) <= MaxRetries
    /\ Cardinality(SecondaryQueries) <= 1
    /\ search.queries # <<>> => 1 \in PrimaryQueries
    /\ \A i \in PrimaryQueries : ~search.queries[i].empty => i = Len(search.queries)
    /\ \A i \in SecondaryQueries :
          /\ i = MaxRetries + 1
          /\ \A j \in 1..(i - 1) : j \in EmptyPrimaryQueries
    /\ Len(search.waits) =
          Cardinality(EmptyPrimaryQueries) - (IF search.pc = "backoff" THEN 1 ELSE 0)
    /\ \A k \in 1..Len(search.waits) :
          search.waits[k] = k - 1 /\ k \in EmptyPrimaryQueries
    /\ search.pc = "returned" => search.queries # <<>>

\* C20: in one search call the primary source is queried first and at most
\* MaxRetries times, no further query follows a primary attempt that
\* returned results, a backoff wait follows each empty attempt, the secondary
\* source is queried at most once and only after MaxRetries empty primary
\* attempts, and the call eventually returns.
C20_SearchIsOrderedAndReturns ==
    []SearchOrder /\ <>(search.pc = "returned")

C20_Witness ==
    /\ search.pc = "returned"
    /\ Len(search.queries) = MaxRetries + 1
    /\ EmptyPrimaryQueries = 1..MaxRetries
    /\ SecondaryQueries = {MaxRetries + 1}
    /\ search.waits = [k \in 1..MaxRetries |-> k - 1]

-----------------------------------------------------------------------------
(* Properties of what WebSearchTool.search returns, checked under SpecSearch. *)

SearchReturned == search.pc = "returned"

\* r has the three fields, a snippet of the minimum length and a title
\* without a character outside ASCII
FullyValid(r) ==
    /\ RequiredKeys \subseteq r.keys
    /\ r.snippet_len >= MinSnippetLength
    /\ r.first_non_ascii = 0

\* C21: every returned result has title, link and snippet, a snippet of at
\* least MinSnippetLength characters and an ASCII-only title; the returned
\* sequence is the first MaxResultsDefault of the fully valid results the
\* sources answered with, in their order; and the call returns (an empty
\* sequence when nothing is valid) rather than raising.
C21_ReturnedResultsAreValid ==
    SearchReturned =>
      /\ \A k \in 1..Len(search.returned) : FullyValid(search.returned[k])
      /\ search.returned =
            Prefix(SelectSeq(search.all_results, FullyValid), MaxResultsDefault)
      /\ Len(search.returned) <= MaxResultsDefault

\* C25: whenever search returns an empty sequence, the primary source was
\* attempted MaxRetries times and the secondary source was queried during
\* that call, also when the primary results all failed validation.
C25_EmptyMeansBothExhausted ==
    (SearchReturned /\ search.returned = <<>>) =>
      /\ Cardinality(PrimaryQueries) = MaxRetries
      /\ SecondaryQueries # {}

-----------------------------------------------------------------------------
(* Properties of QueryAnalyzer.analyze, checked under SpecProcess.           *)

Analyzed(t) == call[t].analysis # NoAnalysis

\* C22: analyze never raises; for a query that makes an extraction step fail
\* (a query that is not a string) it returns the default-valued QueryAnalysis
\* (complexity 0, no entities) whose metadata has the key error.
C22_AnalyzeFailureIsRecorded ==
    \A t \in Slots :
      (Analyzed(t) /\ call[t].query = NoneQuery) =>
        /\ call[t].analysis.complexity = 0
        /\ ~call[t].analysis.has_entities
        /\ "error" \in call[t].analysis.metadata_keys

-----------------------------------------------------------------------------
(* Properties of the steps of one process_query call, checked under          *)
(* SpecDispatch.                                                             *)

\* the call is being processed, routed or dispatched: it has begun and has
\* not reached the record_success or record_failure that ends it
BeforeTerminalStep(t) ==
    /\ call[t].entry = "process_query"
    /\ \/ pc[t] \in {"sp_set", "sp_read", "sp_write", "analyze", "route", "dispatch"}
       \/ /\ pc[t] \in {"rs_read", "rs_write", "rs_time", "rs_path_read",
                        "rs_path_write", "rs_log"}
          /\ call[t].site = "process"

\* C23: while a process_query call is being processed, routed and dispatched
\* the metrics are as the call found them: total_queries,
\* successful_queries, failed_queries, processing_times, path_usage and
\* errors are unchanged before the terminal step.
C23_MetricsUntouchedBeforeTerminalStep ==
    \A t \in Slots : BeforeTerminalStep(t) => metrics = call[t].before


StepOrder == <<"received", "processed", "routed", "dispatched">>

TerminalStates == {"succeeded", "fallback", "failed"}

HandlerOf ==
    [RETRIEVAL     |-> "_handle_retrieval",
     DIRECT        |-> "_handle_direct",
     CALCULATION   |-> "_handle_calculation",
     WEB_SEARCH    |-> "_handle_web_search",
     CLARIFICATION |-> "_handle_clarification"]

\* the states of the call so far are a prefix of received, processed,
\* routed, dispatched, followed by at most one terminal state at the end
StepsInOrder(t) ==
    LET s == call[t].steps
    IN /\ \A k \in 1..Len(s) :
            \/ k <= Len(StepOrder) /\ s[k] = StepOrder[k]
            \/ k = Len(s) /\ s[k] \in TerminalStates
       /\ Finished(t) => s # <<>> /\ s[Len(s)] \in TerminalStates

\* at most one handler beside the one of the query type, and that only
\* _handle_direct after a failed web search
SecondHandlerIsFallback(t) ==
    LET h == call[t].handlers
    IN /\ Len(h) <= 2
       /\ Len(h) = 2 => /\ call[t].decision.query_type = "WEB_SEARCH"
                        /\ h[2] = "_handle_direct"
                        /\ call[t].env.search # "results" \/ call[t].env.llm.kind = "raise"

\* the remainder of C24 once the selection of a handler is left aside
OrderedStepsAndBoundedCalls ==
    \A t \in Slots :
      /\ StepsInOrder(t)
      /\ SecondHandlerIsFallback(t)
      /\ call[t].llm_calls <= 3

\* C24: a process_query call goes through received, processed, routed,
\* dispatched and one terminal state in that order, no step repeated; once
\* dispatched, exactly one handler was selected and it is the handler of the
\* query type; a second handler is only _handle_direct after a failed web
\* search; and the language model is invoked at most three times.
C24_OrderedStepsOneHandler ==
    \A t \in Slots :
      /\ StepsInOrder(t)
      /\ SecondHandlerIsFallback(t)
      /\ call[t].llm_calls <= 3
      /\ (\E k \in 1..Len(call[t].steps) : call[t].steps[k] = "dispatched") =>
            /\ call[t].handlers # <<>>
            /\ call[t].handlers[1] = HandlerOf[call[t].decision.query_type]

-----------------------------------------------------------------------------
(* Properties of the confidence of a routing decision, checked under         *)
(* SpecRoute.                                                                *)

\* C26: the confidence of every decision returned by route lies in [0, 1]
\* (0..100 hundredths), for every query and every reply of the language
\* model, including a confidence that is negative, above 1 or missing.
C26_ConfidenceInUnitInterval ==
    decision # NoDecision => decision.confidence \in 0..100

-----------------------------------------------------------------------------
(* Properties of the store selection of _handle_retrieval, checked under     *)
(* SpecRetrieval.                                                            *)

Retrieved == lookup.returned # NotReturned /\ lookup.manager # NoManager

UsablePreference ==
    /\ Truthy(lookup.store_preference)
    /\ HasStore(lookup.manager, lookup.store_preference.val)

\* the scores of the top results of the manager's stores
TopScores ==
    { lookup.manager.top[lookup.manager.names[i]].score :
        i \in {k \in 1..Len(lookup.manager.names) :
                 lookup.manager.top[lookup.manager.names[k]].found} }

\* C27: when store_preference names an existing store, that store is
\* searched and a successful result has it as selected_store; when the
\* preference is absent or names no existing store, the store searched is
\* one whose top result has the highest score among the stores.
C27_StoreChosenByPolicy ==
    Retrieved =>
      /\ UsablePreference =>
            /\ lookup.returned.searched = lookup.store_preference
            /\ lookup.returned.result.success =>
                  lookup.returned.result.selected_store = lookup.store_preference
      /\ (~UsablePreference /\ TopScores # {}) =>
            /\ lookup.returned.searched # None
            /\ LET top == lookup.manager.top[lookup.returned.searched.val]
               IN top.found /\ \A s \in TopScores : s <= top.score

-----------------------------------------------------------------------------
(* Properties of the Monitor's collections, checked under SpecMonitor.       *)

\* C28: after any sequence of start_processing, record_success and
\* record_failure calls on one Monitor, the number of processing-time
\* samples equals successful_queries, the path_usage counts add up to
\* successful_queries, and the number of error entries equals failed_queries.
C28_CollectionsAgreeWithCounters ==
    /\ Len(metrics.processing_times) = metrics.successful_queries
    /\ SumOver(metrics.path_usage, DOMAIN metrics.path_usage) = metrics.successful_queries
    /\ Len(metrics.errors) = metrics.failed_queries

-----------------------------------------------------------------------------
(* Properties of the counters after process_query calls, checked under Spec. *)

\* C29: after any sequence of process_query calls, successful_queries +
\* failed_queries <= total_queries, and the success rate reported by
\* get_metrics is between 0 and 1.
C29_OutcomesBoundedByTotal ==
    Quiescent =>
      /\ metrics.successful_queries + metrics.failed_queries <= metrics.total_queries
      /\ LET rate == CalculateSuccessRate(metrics)
         IN 0 <= rate.num /\ rate.num <= rate.den

-----------------------------------------------------------------------------
(* Properties of the CALCULATION path, checked under SpecDispatch.           *)

\* q is, as a whole, an arithmetic expression with at least one operator
WholeExpression(q) ==
    /\ q # NoneQuery
    /\ \E i \in 1..Len(q) : q[i] \in {"+", "-", "*", "/"}
    /\ ArithmeticValue(WithoutBlanks(q)) # NotExpression

\* C30: on the CALCULATION path the expression handed to the Calculator is
\* the complete arithmetic expression of the query, so for a query that is
\* an expression the reported result is Calculator.evaluate of all of it
\* ("2+3*4" reports 14.0).
C30_WholeExpressionIsEvaluated ==
    \A t \in Slots :
      (RoutedTo(t, "CALCULATION") /\ WholeExpression(call[t].query)) =>
        /\ call[t].response.metadata.expression = Str(call[t].query)
        /\ call[t].result.response = FormatResult(Evaluate(call[t].query))
        /\ call[t].query = TwoPlusThreeTimesFour =>
              call[t].result.response = "The result is 14.0"

====
